---- MODULE Spec2Model ----
(***************************************************************************)
(* A model of the Rustic chess engine: the board with its incrementally    *)
(* maintained bitboards, piece list, material counters and Zobrist key,    *)
(* make/unmake, and the alpha/beta search.                                 *)
(*                                                                         *)
(* A bitboard (u64) is modelled as the set of squares whose bit is set:    *)
(* | is union, & is intersection, ^ is symmetric difference.  A Zobrist    *)
(* key (u64) is modelled as the set of table entries XOR-ed into it, so    *)
(* that ^ is again symmetric difference; the entries of the table are      *)
(* taken to be linearly independent random words.                          *)
(***************************************************************************)
EXTENDS Integers, Sequences, FiniteSets, TLC

VARIABLES
    board,      \* the engine's Board (board.rs:23-32)
    lastOp,     \* the operation that led to this state
    ret,        \* the value the last make returned
    pre,        \* the board before the last make / the last primitive
    shadow,     \* stack of boards before each make that returned true
    arg,        \* the move passed to the last make
    editsLeft,  \* stand-alone put/remove/move calls still allowed
    plyLimit,   \* longest line of moves played from the start position
    search_params, \* SearchParams: search_mode, depth, nodes, move_time
    control_rx, \* the search's control channel: messages not yet received
    search_info, \* SearchInfo: ply, nodes, terminate, best_move, pv
    stack,      \* activation records of the running calls (alpha_beta, perft)
    pc,         \* position of the search: idle, enter, loop, return, done
    retval,     \* the value returned by the alpha_beta call that just ended
    retkind,    \* the return path it took
    last,       \* what the last step of the move loop did with its move
    completed,  \* iterative deepening: result of the last completed depth
    engine,     \* Engine: comm protocol, quit, settings, xboard, legal_moves
    comm_tx,    \* CommControl messages the engine has sent to the Comm module
    info_rx,    \* the engine's channel of incoming Information
    trace       \* input still to come, and a record of the last report

vars == <<board, lastOp, ret, pre, shadow, arg, editsLeft, plyLimit,
          search_params, control_rx, search_info, stack, pc, retval, retkind,
          last, completed, engine, comm_tx, info_rx, trace>>

boardVars == <<board, lastOp, ret, pre, shadow, arg, editsLeft, plyLimit>>
engineVars == <<engine, comm_tx, info_rx, trace>>
searchVars == <<search_params, control_rx, search_info, stack, pc, retval,
                retkind, last, completed, engineVars>>
\* what no step of alpha_beta or quiescence changes
searchFixed == <<search_params, completed, engineVars>>

----------------------------------------------------------------------------
(* Bounds of the model *)

MaxPly == 2
MaxEdits == 1
MaxEditPly == 1
MaxRootDepth == 2
MaxLinePly == 4
MaxExtraPieces == 3

----------------------------------------------------------------------------
(* defs.rs *)

WHITE == 0
BLACK == 1
CASTLE_WK == 1
CASTLE_WQ == 2
CASTLE_BK == 4
CASTLE_BQ == 8
CASTLE_ALL == 15

Sides == {WHITE, BLACK}
Squares == 0 .. 63

KING == 0
QUEEN == 1
ROOK == 2
BISHOP == 3
KNIGHT == 4
PAWN == 5
PNONE == 6

PieceTypes == KING .. PAWN

A1 == 0
C1 == 2
D1 == 3
E1 == 4
F1 == 5
G1 == 6
H1 == 7
A8 == 56
C8 == 58
D8 == 59
E8 == 60
F8 == 61
G8 == 62
H8 == 63

\* Option<u8>::None of the en-passant field
EP_NONE == 64

File(sq) == sq % 8
Rank(sq) == sq \div 8
Sq(f, r) == r * 8 + f
OnBoard(f, r) == f \in 0 .. 7 /\ r \in 0 .. 7

\* One bit of the castling mask (u8): is bit b (1, 2, 4 or 8) set in c.
HasBit(c, b) == (c \div b) % 2 = 1
\* c & !m for a mask m made of the bits in bits
ClearBits(c, bits) ==
    LET Drop(x, b) == IF b \in bits /\ HasBit(x, b) THEN x - b ELSE x
    IN  Drop(Drop(Drop(Drop(c, 1), 2), 4), 8)
\* The castling mask a is a subset (bitwise) of b.
MaskSubset(a, b) == \A bit \in {1, 2, 4, 8} : HasBit(a, bit) => HasBit(b, bit)

\* ^ on bitboards and on Zobrist keys
Xor(a, b) == (a \ b) \cup (b \ a)

\* evaluation/defs.rs PIECE_VALUES, indexed by piece type
PIECE_VALUES == [p \in 0 .. 5 |->
    CASE p = KING -> 0 [] p = QUEEN -> 900 [] p = ROOK -> 500
      [] p = BISHOP -> 320 [] p = KNIGHT -> 310 [] OTHER -> 100]

U16 == 65536

----------------------------------------------------------------------------
(* board/zobrist.rs: the table of random words.  Each entry of the table   *)
(* is one atom, named by its index in the table: 768 piece entries, 16     *)
(* castling entries, 2 side entries, 8 en-passant files and "none".        *)

zr_piece(side, piece, square) == {side * 384 + piece * 64 + square}
zr_castling(permissions) == {768 + permissions}
zr_side(side) == {784 + side}
zr_en_passant(ep) == IF ep = EP_NONE THEN {794} ELSE {786 + File(ep)}

----------------------------------------------------------------------------
(* board.rs: the primitives *)

occupancy(b) == b.bb_pieces[WHITE] \cup b.bb_pieces[BLACK]
us(b) == b.game_state.active_color
opponent(b) == 1 - b.game_state.active_color

\* trailing_zeros of the king bitboard: 64 when the bitboard is empty
king_square(b, side) ==
    LET k == b.bb_side[side][KING]
    IN  IF k = {} THEN 64 ELSE CHOOSE s \in k : \A t \in k : s <= t

remove_piece_noMaterial(b, side, piece, square) ==
    [b EXCEPT !.piece_list[square] = PNONE,
              !.game_state.zobrist_key = Xor(@, zr_piece(side, piece, square)),
              !.bb_side[side][piece] = Xor(@, {square}),
              !.bb_pieces[side] = Xor(@, {square})]

remove_piece_keepList(b, side, piece, square) ==
    [b EXCEPT !.material_count[side] = (@ - PIECE_VALUES[piece]) % U16,
              !.game_state.zobrist_key = Xor(@, zr_piece(side, piece, square)),
              !.bb_side[side][piece] = Xor(@, {square}),
              !.bb_pieces[side] = Xor(@, {square})]

remove_piece_keepSide(b, side, piece, square) ==
    [b EXCEPT !.piece_list[square] = PNONE,
              !.material_count[side] = (@ - PIECE_VALUES[piece]) % U16,
              !.game_state.zobrist_key = Xor(@, zr_piece(side, piece, square)),
              !.bb_side[side][piece] = Xor(@, {square})]

remove_piece(b, side, piece, square) ==
    [b EXCEPT !.piece_list[square] = PNONE,
              !.material_count[side] = (@ - PIECE_VALUES[piece]) % U16,
              !.game_state.zobrist_key = Xor(@, zr_piece(side, piece, square)),
              !.bb_side[side][piece] = Xor(@, {square}),
              !.bb_pieces[side] = Xor(@, {square})]

\* a slip: the piece's key left out of the Zobrist key
put_piece_noKey(b, side, piece, square) ==
    [b EXCEPT !.bb_side[side][piece] = @ \cup {square},
              !.bb_pieces[side] = @ \cup {square},
              !.material_count[side] = (@ + PIECE_VALUES[piece]) % U16,
              !.piece_list[square] = piece]

put_piece(b, side, piece, square) ==
    [b EXCEPT !.bb_side[side][piece] = @ \cup {square},
              !.bb_pieces[side] = @ \cup {square},
              !.game_state.zobrist_key = Xor(@, zr_piece(side, piece, square)),
              !.material_count[side] = (@ + PIECE_VALUES[piece]) % U16,
              !.piece_list[square] = piece]

move_piece(b, side, piece, from, to) ==
    put_piece(remove_piece(b, side, piece, from), side, piece, to)

set_ep_square(b, square) ==
    LET b1 == [b EXCEPT !.game_state.zobrist_key =
                            Xor(@, zr_en_passant(b.game_state.en_passant))]
        b2 == [b1 EXCEPT !.game_state.en_passant = square]
    IN  [b2 EXCEPT !.game_state.zobrist_key =
                            Xor(@, zr_en_passant(b2.game_state.en_passant))]

\* a slip: the key of the old square taken out, the key of None not put in
clear_ep_square_oneXor(b) ==
    LET b1 == [b EXCEPT !.game_state.zobrist_key =
                            Xor(@, zr_en_passant(b.game_state.en_passant))]
    IN  [b1 EXCEPT !.game_state.en_passant = EP_NONE]

clear_ep_square(b) ==
    LET b1 == [b EXCEPT !.game_state.zobrist_key =
                            Xor(@, zr_en_passant(b.game_state.en_passant))]
        b2 == [b1 EXCEPT !.game_state.en_passant = EP_NONE]
    IN  [b2 EXCEPT !.game_state.zobrist_key =
                            Xor(@, zr_en_passant(b2.game_state.en_passant))]

swap_side(b) ==
    LET b1 == [b EXCEPT !.game_state.zobrist_key =
                            Xor(@, zr_side(b.game_state.active_color))]
        b2 == [b1 EXCEPT !.game_state.active_color = 1 - @]
    IN  [b2 EXCEPT !.game_state.zobrist_key =
                            Xor(@, zr_side(b2.game_state.active_color))]

update_castling_permissions(b, new_permissions) ==
    LET b1 == [b EXCEPT !.game_state.zobrist_key =
                            Xor(@, zr_castling(b.game_state.castling))]
        b2 == [b1 EXCEPT !.game_state.castling = new_permissions]
    IN  [b2 EXCEPT !.game_state.zobrist_key =
                            Xor(@, zr_castling(b2.game_state.castling))]

\* Board::init_piece_bitboards: the union of the six piece bitboards per side
init_piece_bitboards(b) ==
    [s \in Sides |-> UNION {b.bb_side[s][p] : p \in PieceTypes}]

\* Board::init_piece_list: later piece types overwrite earlier ones
init_piece_list(b) ==
    [sq \in Squares |->
        LET ps == {p \in PieceTypes :
                      sq \in b.bb_side[WHITE][p] \cup b.bb_side[BLACK][p]}
        IN  IF ps = {} THEN PNONE ELSE CHOOSE p \in ps : \A q \in ps : q <= p]

init_zobrist_key(b) ==
    LET Of(s, p) == UNION {zr_piece(s, p, sq) : sq \in b.bb_side[s][p]}
        key1 == UNION {Of(k[1], k[2]) : k \in Sides \X PieceTypes}
        key2 == Xor(key1, zr_castling(b.game_state.castling))
        key3 == Xor(key2, zr_side(b.game_state.active_color))
    IN  Xor(key3, zr_en_passant(b.game_state.en_passant))

\* evaluation/material.rs count: the sum of the values of a side's pieces
material_count_of(b, side) ==
    LET RECURSIVE Sum(_)
        Sum(ps) == IF ps = {} THEN 0
                   ELSE LET p == CHOOSE x \in ps : TRUE
                        IN  PIECE_VALUES[p] * Cardinality(b.bb_side[side][p])
                            + Sum(ps \ {p})
    IN  Sum(PieceTypes)

\* Board::init, after fen_read has filled bb_side and the game state
init(b) ==
    LET b1 == [b EXCEPT !.bb_pieces = init_piece_bitboards(b)]
        b2 == [b1 EXCEPT !.piece_list = init_piece_list(b1)]
        b3 == [b2 EXCEPT !.game_state.zobrist_key = init_zobrist_key(b2)]
    IN  [b3 EXCEPT !.material_count =
                       [s \in Sides |-> material_count_of(b3, s)]]

----------------------------------------------------------------------------
(* movegen: attack tables.  A magic lookup returns the ray-traced attack   *)
(* set, so the sliders are modelled by ray tracing with early termination  *)
(* on the first blocker.                                                   *)

Steps(sq, deltas) ==
    {Sq(File(sq) + d[1], Rank(sq) + d[2]) :
        d \in {e \in deltas : OnBoard(File(sq) + e[1], Rank(sq) + e[2])}}

KingDeltas == {<<-1, -1>>, <<-1, 0>>, <<-1, 1>>, <<0, -1>>,
               <<0, 1>>, <<1, -1>>, <<1, 0>>, <<1, 1>>}
KnightDeltas == {<<-2, -1>>, <<-2, 1>>, <<-1, -2>>, <<-1, 2>>,
                 <<1, -2>>, <<1, 2>>, <<2, -1>>, <<2, 1>>}
RookDirs == {<<-1, 0>>, <<1, 0>>, <<0, -1>>, <<0, 1>>}
BishopDirs == {<<-1, -1>>, <<-1, 1>>, <<1, -1>>, <<1, 1>>}

king_attacks == [sq \in Squares |-> Steps(sq, KingDeltas)]
knight_attacks == [sq \in Squares |-> Steps(sq, KnightDeltas)]
pawn_captures == [s \in Sides |-> [sq \in Squares |->
    Steps(sq, IF s = WHITE THEN {<<-1, 1>>, <<1, 1>>}
                            ELSE {<<-1, -1>>, <<1, -1>>})]]

RECURSIVE Ray(_, _, _, _)
Ray(sq, df, dr, occ) ==
    IF ~OnBoard(File(sq) + df, Rank(sq) + dr) THEN {}
    ELSE LET n == Sq(File(sq) + df, Rank(sq) + dr)
         IN  IF n \in occ THEN {n} ELSE {n} \cup Ray(n, df, dr, occ)

rook_attacks(sq, occ) == UNION {Ray(sq, d[1], d[2], occ) : d \in RookDirs}
bishop_attacks(sq, occ) == UNION {Ray(sq, d[1], d[2], occ) : d \in BishopDirs}

\* True if the given side is attacking the given square.
square_attacked(b, attacker, square) ==
    LET att == b.bb_side[attacker]
        occ == occupancy(b)
    IN  \/ att[PAWN] \cap pawn_captures[1 - attacker][square] # {}
        \/ att[KNIGHT] \cap knight_attacks[square] # {}
        \/ att[KING] \cap king_attacks[square] # {}
        \/ (att[ROOK] \cup att[QUEEN]) \cap rook_attacks(square, occ) # {}
        \/ (att[BISHOP] \cup att[QUEEN]) \cap bishop_attacks(square, occ) # {}

----------------------------------------------------------------------------
(* movegen: the pseudo-legal move generator *)

Move(piece, from, to, captured, promoted, ep, ds, castling) ==
    [piece |-> piece, from |-> from, to |-> to, captured |-> captured,
     promoted |-> promoted, en_passant |-> ep, double_step |-> ds,
     castling |-> castling, score |-> 0]

\* Move::new(0): the empty move
NoMove == Move(0, 0, 0, 0, 0, FALSE, FALSE, FALSE)

\* bits::next over a bitboard: the squares in ascending order
RECURSIVE SortedSeq(_)
SortedSeq(S) ==
    IF S = {} THEN <<>>
    ELSE LET m == CHOOSE x \in S : \A y \in S : x <= y
         IN  <<m>> \o SortedSeq(S \ {m})

RECURSIVE Concat(_)
Concat(ss) == IF ss = <<>> THEN <<>> ELSE Head(ss) \o Concat(Tail(ss))

\* movegen.rs non_slider: the quiet and the capture targets of a king or knight
non_slider_quiet(b, piece, side, from) ==
    LET mask == IF piece = KING THEN king_attacks[from]
                ELSE IF piece = KNIGHT THEN knight_attacks[from] ELSE {}
    IN  mask \ occupancy(b)

\* a slip: the capture targets taken from all pieces, the mover's own included
non_slider_capture_anyPiece(b, piece, side, from) ==
    LET mask == IF piece = KING THEN king_attacks[from]
                ELSE IF piece = KNIGHT THEN knight_attacks[from] ELSE {}
    IN  mask \cap occupancy(b)

non_slider_capture(b, piece, side, from) ==
    LET mask == IF piece = KING THEN king_attacks[from]
                ELSE IF piece = KNIGHT THEN knight_attacks[from] ELSE {}
    IN  mask \cap b.bb_pieces[1 - side]

slider_targets(b, piece, side, from) ==
    LET occ == occupancy(b)
        att == IF piece = ROOK THEN rook_attacks(from, occ)
               ELSE IF piece = BISHOP THEN bishop_attacks(from, occ)
               ELSE rook_attacks(from, occ) \cup bishop_attacks(from, occ)
    IN  att \ b.bb_pieces[side]

\* The moves of one king, knight or slider, quiet moves and captures.
piece_moves(b, piece, side, from) ==
    LET targets == IF piece \in {KING, KNIGHT}
                   THEN non_slider_quiet(b, piece, side, from)
                        \cup non_slider_capture(b, piece, side, from)
                   ELSE slider_targets(b, piece, side, from)
        ts == SortedSeq(targets)
    IN  [i \in 1 .. Len(ts) |->
            Move(piece, from, ts[i], b.piece_list[ts[i]], PNONE,
                 FALSE, FALSE, FALSE)]

pawn_moves(b, side, from) ==
    LET occ == occupancy(b)
        dir == IF side = WHITE THEN 8 ELSE -8
        startRank == IF side = WHITE THEN 1 ELSE 6
        promoRank == IF side = WHITE THEN 7 ELSE 0
        one == from + dir
        push == IF one \in Squares /\ one \notin occ THEN {one} ELSE {}
        two == IF push # {} /\ Rank(from) = startRank /\ (one + dir) \notin occ
               THEN {one + dir} ELSE {}
        ep == b.game_state.en_passant
        caps == pawn_captures[side][from] \cap b.bb_pieces[1 - side]
        epcap == IF ep # EP_NONE /\ ep \in pawn_captures[side][from]
                 THEN {ep} ELSE {}
        ts == SortedSeq(push \cup two \cup caps \cup epcap)
        One(to) ==
            IF Rank(to) = promoRank
            THEN [k \in 1 .. 4 |->
                    Move(PAWN, from, to, b.piece_list[to],
                         <<QUEEN, ROOK, BISHOP, KNIGHT>>[k],
                         FALSE, FALSE, FALSE)]
            ELSE <<Move(PAWN, from, to, b.piece_list[to], PNONE,
                        to \in epcap, to \in two, FALSE)>>
    IN  Concat([i \in 1 .. Len(ts) |-> One(ts[i])])

castling_moves(b, side) ==
    LET occ == occupancy(b)
        c == b.game_state.castling
        opp == 1 - side
        kingSq == IF side = WHITE THEN E1 ELSE E8
        Free(sqs) == sqs \cap occ = {}
        Safe(sqs) == \A s \in sqs : ~square_attacked(b, opp, s)
        short == /\ HasBit(c, IF side = WHITE THEN CASTLE_WK ELSE CASTLE_BK)
                 /\ Free({kingSq + 1, kingSq + 2})
                 /\ Safe({kingSq, kingSq + 1, kingSq + 2})
        long == /\ HasBit(c, IF side = WHITE THEN CASTLE_WQ ELSE CASTLE_BQ)
                /\ Free({kingSq - 1, kingSq - 2, kingSq - 3})
                /\ Safe({kingSq, kingSq - 1, kingSq - 2})
    IN  (IF short THEN <<Move(KING, kingSq, kingSq + 2, PNONE, PNONE,
                              FALSE, FALSE, TRUE)>> ELSE <<>>)
        \o (IF long THEN <<Move(KING, kingSq, kingSq - 2, PNONE, PNONE,
                                FALSE, FALSE, TRUE)>> ELSE <<>>)

IsCapture(m) == m.captured # PNONE \/ m.en_passant

\* MoveGenerator::generate_moves with MoveType::All
gen_all_moves(b) ==
    LET side == us(b)
        Of(piece) ==
            LET fs == SortedSeq(b.bb_side[side][piece])
            IN  Concat([i \in 1 .. Len(fs) |->
                          IF piece = PAWN THEN pawn_moves(b, side, fs[i])
                          ELSE piece_moves(b, piece, side, fs[i])])
    IN  Of(KING) \o Of(KNIGHT) \o Of(ROOK) \o Of(BISHOP) \o Of(QUEEN)
        \o Of(PAWN) \o castling_moves(b, side)

\* MoveGenerator::generate_moves with MoveType::Capture
gen_captures(b) == SelectSeq(gen_all_moves(b), IsCapture)

----------------------------------------------------------------------------
(* board/make_move.rs *)

\* UnMakeInfo::new: the irreversible state and the move, as pushed by make
UnMakeInfo(b, m) ==
    [active_color |-> b.game_state.active_color,
     castling |-> b.game_state.castling,
     en_passant |-> b.game_state.en_passant,
     halfmove_clock |-> b.game_state.halfmove_clock,
     fullmove_number |-> b.game_state.fullmove_number,
     zobrist_key |-> b.game_state.zobrist_key,
     this_move |-> m]

\* board.zobrist_key ^= board.zobrist_randoms.castling(board.castling)
XorCastlingKey(b) ==
    [b EXCEPT !.game_state.zobrist_key = Xor(@, zr_castling(b.game_state.castling))]

\* a slip: ^= in place of &= !, which sets a bit that was clear
DropCastling_flip(b, bits) ==
    LET Flip(x, bit) == IF bit \notin bits THEN x
                        ELSE IF HasBit(x, bit) THEN x - bit ELSE x + bit
    IN  [b EXCEPT !.game_state.castling = Flip(Flip(Flip(Flip(@, 1), 2), 4), 8)]

\* board.castling &= !(bits)
DropCastling(b, bits) ==
    [b EXCEPT !.game_state.castling = ClearBits(@, bits)]

\* a slip: the corners looked up for the side that captures
adjust_castling_perms_on_rook_capture_ownCorners(b, side, square) ==
    LET b1 == XorCastlingKey(b)
        b2 == IF side = BLACK
              THEN (IF square = H8 THEN DropCastling(b1, {CASTLE_BK})
                    ELSE IF square = A8 THEN DropCastling(b1, {CASTLE_BQ})
                    ELSE b1)
              ELSE (IF square = H1 THEN DropCastling(b1, {CASTLE_WK})
                    ELSE IF square = A1 THEN DropCastling(b1, {CASTLE_WQ})
                    ELSE b1)
    IN  XorCastlingKey(b2)

\* This function changes castling permissions according to the rook being captured
adjust_castling_perms_on_rook_capture(b, side, square) ==
    LET b1 == XorCastlingKey(b)
        b2 == IF side = WHITE
              THEN (IF square = H8 THEN DropCastling(b1, {CASTLE_BK})
                    ELSE IF square = A8 THEN DropCastling(b1, {CASTLE_BQ})
                    ELSE b1)
              ELSE (IF square = H1 THEN DropCastling(b1, {CASTLE_WK})
                    ELSE IF square = A1 THEN DropCastling(b1, {CASTLE_WQ})
                    ELSE b1)
    IN  XorCastlingKey(b2)

\* make_move.rs:39-45: the move captured a piece; remove it
make_capture(b, m, side) ==
    IF m.captured # PNONE
    THEN LET b1 == remove_piece(b, 1 - side, m.captured, m.to)
         IN  IF m.captured = ROOK
             THEN adjust_castling_perms_on_rook_capture(b1, side, m.to)
             ELSE b1
    ELSE b

\* make_move.rs:47-53: perform the move, taking promotion into account
make_relocate(b, m, side) ==
    LET b1 == remove_piece(b, side, m.piece, m.from)
    IN  IF m.promoted = PNONE
        THEN put_piece(b1, side, m.piece, m.to)
        ELSE put_piece(b1, side, m.promoted, m.to)

\* make_move.rs:55-107: castling; the king has moved, now move the rook
CastleRook(b, m, side, kto, rfrom, rto, bits) ==
    IF m.to = kto
    THEN DropCastling(put_piece(remove_piece(b, side, ROOK, rfrom),
                                side, ROOK, rto), bits)
    ELSE b

\* a slip: castling takes the rights of both sides
make_castling_allRights(b, m, side) ==
    IF m.castling
    THEN LET b1 == XorCastlingKey(b)
             all == {CASTLE_WK, CASTLE_WQ, CASTLE_BK, CASTLE_BQ}
             b2 == CastleRook(b1, m, side, G1, H1, F1, all)
             b3 == CastleRook(b2, m, side, C1, A1, D1, all)
             b4 == CastleRook(b3, m, side, G8, H8, F8, all)
             b5 == CastleRook(b4, m, side, C8, A8, D8, all)
         IN  XorCastlingKey(b5)
    ELSE b

make_castling(b, m, side) ==
    IF m.castling
    THEN LET b1 == XorCastlingKey(b)
             b2 == CastleRook(b1, m, side, G1, H1, F1, {CASTLE_WK, CASTLE_WQ})
             b3 == CastleRook(b2, m, side, C1, A1, D1, {CASTLE_WK, CASTLE_WQ})
             b4 == CastleRook(b3, m, side, G8, H8, F8, {CASTLE_BK, CASTLE_BQ})
             b5 == CastleRook(b4, m, side, C8, A8, D8, {CASTLE_BK, CASTLE_BQ})
         IN  XorCastlingKey(b5)
    ELSE b

\* a slip: the captured pawn looked for on the far side of the target square
make_en_passant_farSide(b, m, side) ==
    IF m.en_passant
    THEN remove_piece(b, 1 - side, PAWN,
                      IF side = WHITE THEN m.to + 8 ELSE m.to - 8)
    ELSE b

\* a slip: the captured pawn looked for on the target square itself
make_en_passant_onTarget(b, m, side) ==
    IF m.en_passant
    THEN remove_piece(b, 1 - side, PAWN, m.to)
    ELSE b

\* make_move.rs:109-113: remove the pawn captured en passant
make_en_passant(b, m, side) ==
    IF m.en_passant
    THEN remove_piece(b, 1 - side, PAWN,
                      IF side = WHITE THEN m.to - 8 ELSE m.to + 8)
    ELSE b

\* make_move.rs:117-150: a king or rook move drops castling permissions
FromDrops(b, m, sq, bits) == IF m.from = sq THEN DropCastling(b, bits) ELSE b

\* a slip: only a king move drops castling permissions
make_castling_perms_kingOnly(b, m) ==
    IF ~m.castling /\ m.piece = KING
    THEN LET b1 == XorCastlingKey(b)
             b4 == FromDrops(b1, m, E1, {CASTLE_WK, CASTLE_WQ})
             b7 == FromDrops(b4, m, E8, {CASTLE_BK, CASTLE_BQ})
         IN  XorCastlingKey(b7)
    ELSE b

make_castling_perms(b, m) ==
    IF ~m.castling /\ (m.piece = KING \/ m.piece = ROOK)
    THEN LET b1 == XorCastlingKey(b)
             b2 == FromDrops(b1, m, H1, {CASTLE_WK})
             b3 == FromDrops(b2, m, A1, {CASTLE_WQ})
             b4 == FromDrops(b3, m, E1, {CASTLE_WK, CASTLE_WQ})
             b5 == FromDrops(b4, m, H8, {CASTLE_BK})
             b6 == FromDrops(b5, m, A8, {CASTLE_BQ})
             b7 == FromDrops(b6, m, E8, {CASTLE_BK, CASTLE_BQ})
         IN  XorCastlingKey(b7)
    ELSE b

\* a slip: the en-passant square stays until the next double step
make_ep_square_sticky(b, m, side) ==
    IF m.double_step
    THEN LET sq == IF side = WHITE THEN m.to - 8 ELSE m.to + 8
         IN  [b EXCEPT !.game_state.en_passant = sq,
                       !.game_state.zobrist_key = Xor(@, zr_en_passant(sq))]
    ELSE b

\* make_move.rs:152-166: every move unsets the en-passant square, except a
\* pawn double-step, which sets it
make_ep_square(b, m, side) ==
    LET b1 == IF b.game_state.en_passant # EP_NONE
              THEN [b EXCEPT !.game_state.zobrist_key =
                                 Xor(@, zr_en_passant(b.game_state.en_passant)),
                             !.game_state.en_passant = EP_NONE]
              ELSE b
    IN  IF m.double_step
        THEN LET sq == IF side = WHITE THEN m.to - 8 ELSE m.to + 8
             IN  [b1 EXCEPT !.game_state.en_passant = sq,
                            !.game_state.zobrist_key = Xor(@, zr_en_passant(sq))]
        ELSE b1

\* a slip: the key changes sides, the color to move does not
make_swap_side_keepColor(b, side) ==
    [b EXCEPT !.game_state.zobrist_key =
                  Xor(Xor(@, zr_side(side)), zr_side(1 - side))]

\* make_move.rs:168-171: change the color to move
make_swap_side(b, side) ==
    [b EXCEPT !.game_state.zobrist_key =
                  Xor(Xor(@, zr_side(side)), zr_side(1 - side)),
              !.game_state.active_color = 1 - side]

\* a slip: only a capture resets the 50-move counter
make_clocks_captureOnly(b, m, side) ==
    [b EXCEPT !.game_state.halfmove_clock =
                  IF m.captured # PNONE THEN 0 ELSE (@ + 1) % 256,
              !.game_state.fullmove_number =
                  IF side = BLACK THEN (@ + 1) % U16 ELSE @]

\* make_move.rs:173-184: the 50-move counter and the full move number
make_clocks(b, m, side) ==
    [b EXCEPT !.game_state.halfmove_clock =
                  IF m.piece = PAWN \/ m.captured # PNONE THEN 0 ELSE (@ + 1) % 256,
              !.game_state.fullmove_number =
                  IF side = BLACK THEN (@ + 1) % U16 ELSE @]

\* make_move.rs:11-184: the move applied, before it is validated
apply_move(b, m) ==
    LET side == b.game_state.active_color
        b0 == [b EXCEPT !.history = Append(@, UnMakeInfo(b, m))]
        b1 == make_capture(b0, m, side)
        b2 == make_relocate(b1, m, side)
        b3 == make_castling(b2, m, side)
        b4 == make_en_passant(b3, m, side)
        b5 == make_castling_perms(b4, m)
        b6 == make_ep_square(b5, m, side)
        b7 == make_swap_side(b6, side)
    IN  make_clocks(b7, m, side)

\* a slip: the Zobrist key is not taken back from the history
unmake_keepKey(b) ==
    LET info == b.history[Len(b.history)]
        m == info.this_move
        side == info.active_color
        opp == 1 - side
        b0 == [b EXCEPT !.history = SubSeq(@, 1, Len(@) - 1)]
        b1 == IF m.en_passant
              THEN put_piece(b0, opp, PAWN,
                             IF side = WHITE THEN m.to - 8 ELSE m.to + 8)
              ELSE b0
        RookBack(x, kto, rfrom, rto) ==
            IF m.castling /\ m.to = kto
            THEN put_piece(remove_piece(x, side, ROOK, rto), side, ROOK, rfrom)
            ELSE x
        b2 == RookBack(RookBack(RookBack(RookBack(b1, G1, H1, F1),
                                         C1, A1, D1), G8, H8, F8), C8, A8, D8)
        b3 == remove_piece(b2, side,
                           IF m.promoted = PNONE THEN m.piece ELSE m.promoted,
                           m.to)
        b4 == put_piece(b3, side, m.piece, m.from)
        b5 == IF m.captured # PNONE
              THEN put_piece(b4, opp, m.captured, m.to)
              ELSE b4
    IN  [b5 EXCEPT !.game_state =
            [active_color |-> info.active_color,
             castling |-> info.castling,
             en_passant |-> info.en_passant,
             halfmove_clock |-> info.halfmove_clock,
             fullmove_number |-> info.fullmove_number,
             zobrist_key |-> b5.game_state.zobrist_key]]

\* unmake_move: pop the snapshot, put the pieces back in the opposite order,
\* and restore the irreversible state from the snapshot
unmake(b) ==
    LET info == b.history[Len(b.history)]
        m == info.this_move
        side == info.active_color
        opp == 1 - side
        b0 == [b EXCEPT !.history = SubSeq(@, 1, Len(@) - 1)]
        b1 == IF m.en_passant
              THEN put_piece(b0, opp, PAWN,
                             IF side = WHITE THEN m.to - 8 ELSE m.to + 8)
              ELSE b0
        RookBack(x, kto, rfrom, rto) ==
            IF m.castling /\ m.to = kto
            THEN put_piece(remove_piece(x, side, ROOK, rto), side, ROOK, rfrom)
            ELSE x
        b2 == RookBack(RookBack(RookBack(RookBack(b1, G1, H1, F1),
                                         C1, A1, D1), G8, H8, F8), C8, A8, D8)
        b3 == remove_piece(b2, side,
                           IF m.promoted = PNONE THEN m.piece ELSE m.promoted,
                           m.to)
        b4 == put_piece(b3, side, m.piece, m.from)
        b5 == IF m.captured # PNONE
              THEN put_piece(b4, opp, m.captured, m.to)
              ELSE b4
    IN  [b5 EXCEPT !.game_state =
            [active_color |-> info.active_color,
             castling |-> info.castling,
             en_passant |-> info.en_passant,
             halfmove_clock |-> info.halfmove_clock,
             fullmove_number |-> info.fullmove_number,
             zobrist_key |-> info.zobrist_key]]

\* a slip: the king of the side that did not move is looked at
is_legal_after_otherKing(b, side) ==
    ~square_attacked(b, side, king_square(b, 1 - side))

\* make_move.rs:186-197: the move is done; it is legal when the mover's king
\* is not attacked.  An illegal move is taken back.
is_legal_after(b, side) ==
    ~square_attacked(b, 1 - side, king_square(b, side))

make_move(b, m) ==
    LET side == b.game_state.active_color
        b1 == apply_move(b, m)
        is_legal == is_legal_after(b1, side)
    IN  [board |-> IF is_legal THEN b1 ELSE unmake(b1), is_legal |-> is_legal]

\* Engine::create_legal_move_list: the moves make accepts
legal_moves(b) ==
    SelectSeq(gen_all_moves(b), LAMBDA m : make_move(b, m).is_legal)

----------------------------------------------------------------------------
(* Positions.  A position is what fen_read followed by Board::init leaves. *)

GameState(color, castling, ep, hmc, fmn) ==
    [active_color |-> color, castling |-> castling, en_passant |-> ep,
     halfmove_clock |-> hmc, fullmove_number |-> fmn, zobrist_key |-> {}]

\* Board::new: the empty board
EmptyBoard ==
    [bb_side |-> [s \in Sides |-> [p \in PieceTypes |-> {}]],
     bb_pieces |-> [s \in Sides |-> {}],
     game_state |-> GameState(WHITE, 0, EP_NONE, 0, 0),
     history |-> <<>>,
     piece_list |-> [sq \in Squares |-> PNONE],
     material_count |-> [s \in Sides |-> 0]]

\* Board::reset: the bitboards, the piece list, the game state and the
\* history are set as Board::new sets them
reset(b) ==
    [b EXCEPT !.bb_side = [s \in Sides |-> [p \in PieceTypes |-> {}]],
              !.bb_pieces = [s \in Sides |-> {}],
              !.piece_list = [sq \in Squares |-> PNONE],
              !.game_state = GameState(WHITE, 0, EP_NONE, 0, 0),
              !.history = <<>>]

\* fen_read: pieces is a set of <<side, piece, square>>
Position(pieces, color, castling, ep, hmc, fmn) ==
    init([EmptyBoard EXCEPT
            !.bb_side = [s \in Sides |-> [p \in PieceTypes |->
                            {sq \in Squares : <<s, p, sq>> \in pieces}]],
            !.game_state = GameState(color, castling, ep, hmc, fmn)])

\* r3k3/8/8/8/8/8/8/R3K2R w KQq - 0 1
PosCastle ==
    Position({<<WHITE, KING, E1>>, <<WHITE, ROOK, A1>>, <<WHITE, ROOK, H1>>,
              <<BLACK, KING, E8>>, <<BLACK, ROOK, A8>>},
             WHITE, CASTLE_WK + CASTLE_WQ + CASTLE_BQ, EP_NONE, 0, 1)

\* r3k3/1P1p4/8/4P3/8/8/8/4K3 b q - 0 1
PosPromoEp ==
    Position({<<WHITE, KING, E1>>, <<WHITE, PAWN, 49>>, <<WHITE, PAWN, 36>>,
              <<BLACK, KING, E8>>, <<BLACK, ROOK, A8>>, <<BLACK, PAWN, 51>>},
             BLACK, CASTLE_BQ, EP_NONE, 0, 1)

\* 4k2r/8/8/8/3p4/8/4P3/4K3 w k - 0 1
PosEpBlack ==
    Position({<<WHITE, KING, E1>>, <<WHITE, PAWN, 12>>,
              <<BLACK, KING, E8>>, <<BLACK, ROOK, H8>>, <<BLACK, PAWN, 27>>},
             WHITE, CASTLE_BK, EP_NONE, 0, 1)

\* 4k3/8/8/8/8/8/4P3/4K3 w - - 0 1
PosSmall ==
    Position({<<WHITE, KING, E1>>, <<WHITE, PAWN, 12>>, <<BLACK, KING, E8>>},
             WHITE, 0, EP_NONE, 0, 1)

\* r3k2r/8/8/8/8/8/R7/4K2R w Kkq - 0 1
PosRooks ==
    Position({<<WHITE, KING, E1>>, <<WHITE, ROOK, 8>>, <<WHITE, ROOK, H1>>,
              <<BLACK, KING, E8>>, <<BLACK, ROOK, A8>>, <<BLACK, ROOK, H8>>},
             WHITE, CASTLE_WK + CASTLE_BK + CASTLE_BQ, EP_NONE, 0, 1)

\* 4k3/8/8/8/6n1/2p5/3P3P/1N2K3 w - - 0 1
PosKnights ==
    Position({<<WHITE, KING, E1>>, <<WHITE, KNIGHT, 1>>, <<WHITE, PAWN, 11>>,
              <<WHITE, PAWN, 15>>, <<BLACK, KING, E8>>, <<BLACK, KNIGHT, 30>>,
              <<BLACK, PAWN, 18>>},
             WHITE, 0, EP_NONE, 0, 1)

BackRank == <<ROOK, KNIGHT, BISHOP, QUEEN, KING, BISHOP, KNIGHT, ROOK>>

\* rnbqkbnr/pppppppp/8/8/8/8/PPPPPPPP/RNBQKBNR w KQkq - 0 1
PosStart ==
    Position({<<WHITE, BackRank[f + 1], Sq(f, 0)>> : f \in 0 .. 7}
             \cup {<<WHITE, PAWN, Sq(f, 1)>> : f \in 0 .. 7}
             \cup {<<BLACK, PAWN, Sq(f, 6)>> : f \in 0 .. 7}
             \cup {<<BLACK, BackRank[f + 1], Sq(f, 7)>> : f \in 0 .. 7},
             WHITE, CASTLE_ALL, EP_NONE, 0, 1)

\* k7/8/8/8/8/8/8/7K w - - 6 40
PosKings ==
    Position({<<WHITE, KING, H1>>, <<BLACK, KING, A8>>},
             WHITE, 0, EP_NONE, 6, 40)

\* The positions played from, each with the number of stand-alone calls of
\* the primitives allowed on it and the length of the lines played from it.
StartPositions ==
    {<<PosCastle, 0, MaxPly>>, <<PosPromoEp, 0, MaxPly>>,
     <<PosEpBlack, 0, MaxPly>>, <<PosSmall, MaxEdits, MaxEditPly>>,
     <<PosKings, 0, MaxLinePly>>, <<PosRooks, 0, MaxPly>>,
     <<PosKnights, 0, MaxPly>>}

\* d4
EditSquares == {27}
EditPieces == {QUEEN, PAWN}

\* SearchInfo::new
IdleSearchInfo ==
    [ply |-> 0, nodes |-> 0, depth |-> 0, elapsed |-> 0,
     terminate |-> "Nothing", best_move |-> NoMove, pv |-> <<>>]

\* SearchParams::new
NoSearchParams ==
    [search_mode |-> "Nothing", depth |-> 0, nodes |-> 0, move_time |-> 0]

\* no depth completed yet
NoneCompleted == [depth |-> 0, best_move |-> NoMove, pv |-> <<>>]

NoLast ==
    [kind |-> "none", from_hmc |-> 0, hmc |-> 0, score |-> 0, move |-> NoMove]

\* XBoardStat01::new
NewStat01 ==
    [time |-> 0, nodes |-> 0, depth |-> 0, moves_left |-> 0,
     total_moves |-> 0, curr_move |-> NoMove]

\* Engine::new, for the protocol given on the command line
NewEngine(protocol) ==
    [comm |-> protocol, quit |-> FALSE, quiet |-> "No", stat01 |-> NewStat01,
     features |-> {}, legal_moves |-> <<>>]

NoTrace ==
    [lines |-> 0, report |-> [src |-> "none"], lists |-> 0, applied |-> 0,
     idle |-> TRUE, stat01 |-> NewStat01, sent_idle |-> <<>>, line |-> <<>>,
     exited |-> FALSE]

\* no protocol traffic: the engine as constructed, nothing read or sent
EngineIdle ==
    /\ engine = NewEngine("uci")
    /\ comm_tx = <<>>
    /\ info_rx = <<>>
    /\ trace = NoTrace

SearchIdle ==
    /\ search_params = NoSearchParams
    /\ completed = NoneCompleted
    /\ EngineIdle
    /\ control_rx = <<>>
    /\ search_info = IdleSearchInfo
    /\ stack = <<>>
    /\ pc = "idle"
    /\ retval = 0
    /\ retkind = "none"
    /\ last = NoLast

Init ==
    /\ \E p \in StartPositions :
          board = p[1] /\ editsLeft = p[2] /\ plyLimit = p[3]
    /\ lastOp = "init"
    /\ ret = TRUE
    /\ pre = EmptyBoard
    /\ shadow = <<>>
    /\ arg = NoMove
    /\ SearchIdle

----------------------------------------------------------------------------
(* The board's operations *)

\* board.make(m), for a move m of the pseudo-legal move list
Make(m) ==
    /\ LET r == make_move(board, m)
       IN  /\ board' = r.board
           /\ ret' = r.is_legal
           /\ shadow' = IF r.is_legal THEN Append(shadow, board) ELSE shadow
    /\ pre' = board
    /\ arg' = m
    /\ lastOp' = "make"
    /\ UNCHANGED <<editsLeft, plyLimit, searchVars>>

\* board.unmake()
Unmake ==
    /\ Len(board.history) > 0
    /\ lastOp = "make" => ret
    /\ board' = unmake(board)
    /\ pre' = shadow[Len(shadow)]
    /\ shadow' = SubSeq(shadow, 1, Len(shadow) - 1)
    /\ arg' = NoMove
    /\ ret' = TRUE
    /\ lastOp' = "unmake"
    /\ UNCHANGED <<editsLeft, plyLimit, searchVars>>

\* A position the engine can be in: the side that is not to move is not in check
Playable(b) == ~square_attacked(b, us(b), king_square(b, opponent(b)))

Edit(op, b) ==
    /\ editsLeft > 0
    /\ lastOp = "make" => ret
    /\ board.history = <<>>
    /\ Playable(b)
    /\ board' = b
    /\ pre' = board
    /\ editsLeft' = editsLeft - 1
    /\ lastOp' = op
    /\ ret' = TRUE
    /\ UNCHANGED <<shadow, plyLimit, searchVars>>

\* board.put_piece(side, piece, square) on an empty square
PutPiece(side, piece, square) ==
    /\ square \notin occupancy(board)
    /\ arg' = Move(piece, square, square, PNONE, PNONE, FALSE, FALSE, FALSE)
    /\ Edit("put_piece", put_piece(board, side, piece, square))

\* board.remove_piece(side, piece, square) of a piece that is on the square
RemovePiece(side, piece, square) ==
    /\ square \in board.bb_side[side][piece]
    /\ piece # KING
    /\ arg' = Move(piece, square, square, PNONE, PNONE, FALSE, FALSE, FALSE)
    /\ Edit("remove_piece", remove_piece(board, side, piece, square))

\* board.move_piece(side, piece, from, to) to an empty square
MovePiece(side, piece, from, to) ==
    /\ from \in board.bb_side[side][piece]
    /\ to \notin occupancy(board)
    /\ arg' = Move(piece, from, to, PNONE, PNONE, FALSE, FALSE, FALSE)
    /\ Edit("move_piece", move_piece(board, side, piece, from, to))

\* A state reached by a rejected make holds the board of the state before the
\* call (MakeRejectedRestores checks that it does); the moves that follow are
\* explored from that state.
MakeAny ==
    /\ Len(board.history) < plyLimit
    /\ lastOp = "make" => ret
    /\ LET ml == gen_all_moves(board)
       IN  \E i \in 1 .. Len(ml) : Make(ml[i])
PutAny == \E s \in Sides, p \in EditPieces, sq \in EditSquares : PutPiece(s, p, sq)
RemoveAny == \E s \in Sides, p \in PieceTypes, sq \in Squares : RemovePiece(s, p, sq)
MoveAny == \E s \in Sides, p \in PieceTypes, sq \in Squares, to \in EditSquares :
               MovePiece(s, p, sq, to)

Next == MakeAny \/ Unmake \/ PutAny \/ RemoveAny \/ MoveAny

Spec == Init /\ [][Next]_vars

----------------------------------------------------------------------------
(* search/defs.rs *)

INF == 25000
CHECKMATE == 24000
STALEMATE == 0
DRAW == 0
MAX_MOVE_RULE == 100
MAX_DEPTH == 128
\* a checkpoint is reached every CHECK_TERMINATION nodes
CHECK_TERMINATION == 4

\* evaluation: centipawns from the side to move's point of view (material)
evaluate_position(b) ==
    b.material_count[us(b)] - b.material_count[opponent(b)]

----------------------------------------------------------------------------
(* search/utils.rs *)

\* try_recv on the control channel
try_recv(rx) == IF rx = <<>> THEN "Nothing" ELSE Head(rx)

Search_out_of_time(si, sp) == si.elapsed >= sp.move_time

\* a slip: the node limit applied in every search mode
check_termination_anyMode(si, sp, rx) ==
    LET cmd == try_recv(rx)
        si1 == IF cmd = "Stop" THEN [si EXCEPT !.terminate = "Stop"]
               ELSE IF cmd = "Quit" THEN [si EXCEPT !.terminate = "Quit"]
               ELSE si
    IN  IF si1.nodes >= sp.nodes THEN [si1 EXCEPT !.terminate = "Stop"]
        ELSE si1

\* a slip: the search stopped on reaching the requested depth
check_termination_atDepth(si, sp, rx) ==
    LET cmd == try_recv(rx)
        si1 == IF cmd = "Stop" THEN [si EXCEPT !.terminate = "Stop"]
               ELSE IF cmd = "Quit" THEN [si EXCEPT !.terminate = "Quit"]
               ELSE si
        mode == sp.search_mode
        hit == CASE mode = "Depth" -> si1.depth >= sp.depth
                 [] mode = "MoveTime" -> si1.elapsed >= sp.move_time
                 [] mode = "Nodes" -> si1.nodes >= sp.nodes
                 [] mode = "GameTime" -> Search_out_of_time(si1, sp)
                 [] OTHER -> FALSE
    IN  IF hit THEN [si1 EXCEPT !.terminate = "Stop"] ELSE si1

\* Search::check_termination: the search info after the check
check_termination(si, sp, rx) ==
    LET cmd == try_recv(rx)
        si1 == IF cmd = "Stop" THEN [si EXCEPT !.terminate = "Stop"]
               ELSE IF cmd = "Quit" THEN [si EXCEPT !.terminate = "Quit"]
               ELSE si
        mode == sp.search_mode
        hit == CASE mode = "Depth" -> si1.depth > sp.depth
                 [] mode = "MoveTime" -> si1.elapsed >= sp.move_time
                 [] mode = "Nodes" -> si1.nodes >= sp.nodes
                 [] mode = "GameTime" -> Search_out_of_time(si1, sp)
                 [] OTHER -> FALSE
    IN  IF hit THEN [si1 EXCEPT !.terminate = "Stop"] ELSE si1

Search_is_checkpoint(si) == si.nodes % CHECK_TERMINATION = 0

\* a slip: one bishop taken for a pair
is_insufficient_material_oneBishop(b) ==
    LET Count(p, s) == Cardinality(b.bb_side[s][p])
        heavy == \E s \in Sides : \E p \in {PAWN, QUEEN, ROOK} : Count(p, s) > 0
        w_b == Count(BISHOP, WHITE) > 0
        b_b == Count(BISHOP, BLACK) > 0
    IN  ~(heavy \/ w_b \/ b_b)

\* Search::is_insufficient_material
is_insufficient_material(b) ==
    LET Count(p, s) == Cardinality(b.bb_side[s][p])
        w_p == Count(PAWN, WHITE) > 0
        b_p == Count(PAWN, BLACK) > 0
        w_q == Count(QUEEN, WHITE) > 0
        b_q == Count(QUEEN, BLACK) > 0
        w_r == Count(ROOK, WHITE) > 0
        b_r == Count(ROOK, BLACK) > 0
        w_b == Count(BISHOP, WHITE) > 1
        b_b == Count(BISHOP, BLACK) > 1
        w_bn == Count(BISHOP, WHITE) > 0 /\ Count(KNIGHT, WHITE) > 0
        b_bn == Count(BISHOP, BLACK) > 0 /\ Count(KNIGHT, BLACK) > 0
    IN  ~(w_p \/ b_p \/ w_q \/ b_q \/ w_r \/ b_r \/ w_b \/ b_b \/ w_bn \/ b_bn)

\* Search::is_repetition.  history.get_ref(i) is b.history[i + 1].  The loop
\* runs from i = len - 1 down to 1 and stops after a snapshot whose halfmove
\* clock is 0.  (With an empty history len - 1 underflows; the search calls
\* is_draw only after a make.)
RECURSIVE repetition_loop(_, _, _, _)
repetition_loop(b, i, stop, count) ==
    IF i # 0 /\ ~stop
    THEN LET historic == b.history[i + 1]
         IN  repetition_loop(b, i - 1, historic.halfmove_clock = 0,
                 IF historic.zobrist_key = b.game_state.zobrist_key
                 THEN count + 1 ELSE count)
    ELSE count

is_repetition(b) ==
    IF Len(b.history) = 0 THEN 0
    ELSE repetition_loop(b, Len(b.history) - 1, FALSE, 0)

\* a slip: the clock compared with > instead of >=
is_draw_late(b) ==
    \/ is_insufficient_material(b)
    \/ is_repetition(b) > 0
    \/ b.game_state.halfmove_clock > MAX_MOVE_RULE

\* Search::is_draw
is_draw(b) ==
    \/ is_insufficient_material(b)
    \/ is_repetition(b) > 0
    \/ b.game_state.halfmove_clock >= MAX_MOVE_RULE

----------------------------------------------------------------------------
(* search: move ordering *)

\* Search::score_moves: MVV-LVA for captures, the promoted piece's value for
\* promotions, 0 for quiet moves
move_score(m) ==
    IF m.captured # PNONE
    THEN 10000 + 10 * PIECE_VALUES[m.captured] - PIECE_VALUES[m.piece]
    ELSE IF m.promoted # PNONE THEN PIECE_VALUES[m.promoted]
    ELSE 0

score_moves(ml) ==
    [i \in 1 .. Len(ml) |-> [ml[i] EXCEPT !.score = move_score(ml[i])]]

Swap(ml, i, j) == [ml EXCEPT ![i] = ml[j], ![j] = ml[i]]

\* Search::pick_move: bring the best-scored move of [index ..] to index
RECURSIVE pick_loop(_, _, _)
pick_loop(ml, index, i) ==
    IF i > Len(ml) THEN ml
    ELSE IF ml[i].score > ml[index].score
         THEN pick_loop(Swap(ml, index, i), index, i + 1)
         ELSE pick_loop(ml, index, i + 1)

\* a slip: the scan starts one slot too far
pick_move_skipNext(ml, index) == pick_loop(ml, index, index + 2)

pick_move(ml, index) == pick_loop(ml, index, index + 1)

Max(a, b) == IF a >= b THEN a ELSE b

----------------------------------------------------------------------------
(* search/alpha_beta.rs.  One activation of alpha_beta is one frame of      *)
(* stack; pc tells where the activation on top of the stack stands:        *)
(* "enter" before line 42, "loop" at the head of the move loop (line 76),  *)
(* "q_enter" and "q_loop" the same places of quiescence, which an          *)
(* activation with depth 0 runs in its own frame (line 52), and "return"   *)
(* when it has returned retval.                                            *)

Frame(depth, alpha, beta) ==
    [depth |-> depth, alpha0 |-> alpha, alpha |-> alpha, beta |-> beta,
     move_list |-> <<>>, i |-> 1, legal_moves_found |-> 0,
     best_move |-> NoMove, pv |-> <<>>, fn |-> "alpha_beta",
     in_quiescence |-> FALSE,
     entry |-> [board |-> EmptyBoard, ply |-> 0]]

\* the frame of a call entered with board b at ply: entry keeps what the
\* board and search_info.ply were when the call was entered
Entered(f, b, ply) == [f EXCEPT !.entry = [board |-> b, ply |-> ply]]

Top == stack[Len(stack)]
SetTop(f) == [stack EXCEPT ![Len(stack)] = f]

\* a slip: the distance to the mate subtracted instead of added
no_moves_score_minus(b, ply) ==
    IF square_attacked(b, opponent(b), king_square(b, us(b)))
    THEN -CHECKMATE - ply
    ELSE STALEMATE

\* alpha_beta.rs:151-164: no legal move was found
no_moves_score(b, ply) ==
    IF square_attacked(b, opponent(b), king_square(b, us(b)))
    THEN -CHECKMATE + ply
    ELSE STALEMATE

\* a slip: the score itself returned on a cutoff (fail-soft)
after_score_soft(f, m, eval_score, node_pv) ==
    IF eval_score >= f.beta
    THEN [cut |-> TRUE, value |-> eval_score, frame |-> f]
    ELSE IF eval_score > f.alpha
    THEN [cut |-> FALSE, value |-> 0,
          frame |-> [f EXCEPT !.alpha = eval_score, !.best_move = m,
                              !.pv = <<m>> \o node_pv, !.i = @ + 1]]
    ELSE [cut |-> FALSE, value |-> 0, frame |-> [f EXCEPT !.i = @ + 1]]

\* a slip: the move that raises alpha is not recorded as the best move
after_score_keepBest(f, m, eval_score, node_pv) ==
    IF eval_score >= f.beta
    THEN [cut |-> TRUE, value |-> f.beta, frame |-> f]
    ELSE IF eval_score > f.alpha
    THEN [cut |-> FALSE, value |-> 0,
          frame |-> [f EXCEPT !.alpha = eval_score,
                              !.pv = <<m>> \o node_pv, !.i = @ + 1]]
    ELSE [cut |-> FALSE, value |-> 0, frame |-> [f EXCEPT !.i = @ + 1]]

\* alpha_beta.rs:130-146: the move has been taken back; beta cutoff, or a
\* better move, or neither
after_score(f, m, eval_score, node_pv) ==
    IF eval_score >= f.beta
    THEN [cut |-> TRUE, value |-> f.beta, frame |-> f]
    ELSE IF eval_score > f.alpha
    THEN [cut |-> FALSE, value |-> 0,
          frame |-> [f EXCEPT !.alpha = eval_score, !.best_move = m,
                              !.pv = <<m>> \o node_pv, !.i = @ + 1]]
    ELSE [cut |-> FALSE, value |-> 0, frame |-> [f EXCEPT !.i = @ + 1]]

\* The root call alpha_beta(depth, alpha, beta, pv, refs) of a search
AbStart(depth, alpha, beta) ==
    /\ pc = "idle"
    /\ stack' = <<Entered(Frame(depth, alpha, beta), board, search_info.ply)>>
    /\ search_info' = [search_info EXCEPT !.depth = depth]
    /\ pc' = "enter"
    /\ UNCHANGED <<boardVars, searchFixed, control_rx, retval, retkind, last>>

\* alpha_beta.rs:41-73: from the entry to the head of the move loop
AbEnter ==
    /\ pc = "enter"
    /\ LET f == Top
           checked == Search_is_checkpoint(search_info)
           si == IF checked
                 THEN check_termination(search_info, search_params, control_rx)
                 ELSE search_info
       IN  /\ control_rx' = IF checked /\ control_rx # <<>>
                            THEN Tail(control_rx) ELSE control_rx
           /\ IF f.depth = 0
              THEN /\ stack' = SetTop([f EXCEPT !.in_quiescence = TRUE])
                   /\ pc' = "q_enter"
                   /\ search_info' = si
                   /\ UNCHANGED <<retval, retkind>>
              ELSE IF si.ply >= MAX_DEPTH
              THEN /\ retval' = evaluate_position(board)
                   /\ retkind' = "max_depth"
                   /\ pc' = "return"
                   /\ search_info' = si
                   /\ stack' = stack
              ELSE /\ stack' = SetTop([f EXCEPT !.move_list =
                                          score_moves(gen_all_moves(board))])
                   /\ search_info' = [si EXCEPT !.nodes = @ + 1]
                   /\ pc' = "loop"
                   /\ UNCHANGED <<retval, retkind>>
    /\ last' = NoLast
    /\ UNCHANGED <<boardVars, searchFixed>>

\* alpha_beta.rs:76-146: one turn of the move loop.  A legal move that does
\* not draw starts the recursive call; otherwise the turn runs to its end.
AbMove ==
    /\ pc = "loop"
    /\ Top.i <= Len(Top.move_list)
    /\ search_info.terminate = "Nothing"
    /\ \E f \in {Top} :
       \E ml \in {pick_move(f.move_list, f.i)} :
       \E r \in {make_move(board, ml[f.i])} :
       LET current_move == ml[f.i]
           f1 == [f EXCEPT !.move_list = ml,
                           !.legal_moves_found = @ + 1]
           from_hmc == board.game_state.halfmove_clock
           hmc == r.board.game_state.halfmove_clock
       IN  IF ~r.is_legal
           THEN /\ stack' = SetTop([f EXCEPT !.move_list = ml, !.i = @ + 1])
                /\ board' = r.board
                /\ last' = [kind |-> "illegal", from_hmc |-> from_hmc,
                            hmc |-> hmc, score |-> 0, move |-> current_move]
                /\ UNCHANGED <<search_info, pc, retval, retkind>>
           ELSE IF is_draw(r.board)
           THEN LET eval_score == DRAW
                    a == after_score(f1, current_move, eval_score, <<>>)
                IN  /\ board' = unmake(r.board)
                    /\ stack' = SetTop(a.frame)
                    /\ pc' = IF a.cut THEN "return" ELSE "loop"
                    /\ retval' = IF a.cut THEN a.value ELSE retval
                    /\ retkind' = IF a.cut THEN "cutoff" ELSE retkind
                    /\ last' = [kind |-> "draw", from_hmc |-> from_hmc,
                                hmc |-> hmc, score |-> eval_score,
                                move |-> current_move]
                    /\ UNCHANGED search_info
           ELSE /\ board' = r.board
                /\ search_info' = [search_info EXCEPT !.ply = @ + 1]
                /\ stack' = Append(SetTop(f1),
                                   Entered(Frame(f.depth - 1, -f.beta, -f.alpha),
                                           r.board, search_info.ply + 1))
                /\ pc' = "enter"
                /\ last' = [kind |-> "recurse", from_hmc |-> from_hmc,
                            hmc |-> hmc, score |-> 0, move |-> current_move]
                /\ UNCHANGED <<retval, retkind>>
    /\ UNCHANGED <<lastOp, ret, pre, shadow, arg, editsLeft, plyLimit,
                   searchFixed, control_rx>>

\* alpha_beta.rs:126-146: the recursive call has returned retval
AbReturn ==
    /\ pc = "return"
    /\ Len(stack) > 1
    /\ ~stack[Len(stack) - 1].in_quiescence
    /\ LET child == Top
           f == stack[Len(stack) - 1]
           current_move == f.move_list[f.i]
           a == after_score(f, current_move, -retval, child.pv)
       IN  /\ board' = unmake(board)
           /\ search_info' = [search_info EXCEPT !.ply = @ - 1]
           /\ stack' = [SubSeq(stack, 1, Len(stack) - 1)
                           EXCEPT ![Len(stack) - 1] = a.frame]
           /\ pc' = IF a.cut THEN "return" ELSE "loop"
           /\ retval' = IF a.cut THEN a.value ELSE retval
           /\ retkind' = IF a.cut THEN "cutoff" ELSE retkind
           /\ last' = [kind |-> "scored", from_hmc |-> 0, hmc |-> 0,
                       score |-> -retval, move |-> current_move]
    /\ UNCHANGED <<lastOp, ret, pre, shadow, arg, editsLeft, plyLimit,
                   searchFixed, control_rx>>

\* alpha_beta.rs:76-79 and 149-173: the loop has ended, by exhaustion of the
\* move list or by the termination flag
AbExit ==
    /\ pc = "loop"
    /\ Top.i > Len(Top.move_list) \/ search_info.terminate # "Nothing"
    /\ LET f == Top
       IN  IF f.legal_moves_found = 0
           THEN /\ retval' = no_moves_score(board, search_info.ply)
                /\ retkind' = "no_moves"
                /\ UNCHANGED search_info
           ELSE /\ search_info' = [search_info EXCEPT
                                      !.best_move = f.best_move, !.pv = f.pv]
                /\ retval' = f.alpha
                /\ retkind' = "alpha"
    /\ pc' = "return"
    /\ last' = NoLast
    /\ UNCHANGED <<boardVars, searchFixed, control_rx, stack>>

\* Search::quiescence, up to the head of the loop over the captures: stand
\* pat, raise alpha, generate and score the captures
QEnter ==
    /\ pc = "q_enter"
    /\ LET f == Top
           stand_pat == evaluate_position(board)
       IN  IF stand_pat >= f.beta
           THEN /\ retval' = f.beta
                /\ retkind' = "quiescence"
                /\ pc' = "return"
                /\ stack' = stack
           ELSE /\ stack' = SetTop([f EXCEPT
                                      !.alpha = Max(f.alpha, stand_pat),
                                      !.move_list =
                                          score_moves(gen_captures(board))])
                /\ pc' = "q_loop"
                /\ UNCHANGED <<retval, retkind>>
    /\ last' = NoLast
    /\ UNCHANGED <<boardVars, searchFixed, control_rx, search_info>>

\* Search::quiescence: one capture is made; a legal one is searched
QMove ==
    /\ pc = "q_loop"
    /\ Top.i <= Len(Top.move_list)
    /\ \E f \in {Top} :
       \E ml \in {pick_move(f.move_list, f.i)} :
       \E r \in {make_move(board, ml[f.i])} :
           /\ board' = r.board
           /\ IF ~r.is_legal
              THEN /\ stack' = SetTop([f EXCEPT !.move_list = ml, !.i = @ + 1])
                   /\ UNCHANGED <<search_info, pc>>
              ELSE /\ search_info' = [search_info EXCEPT !.ply = @ + 1]
                   /\ stack' = Append(SetTop([f EXCEPT !.move_list = ml]),
                                      Entered([Frame(0, -f.beta, -f.alpha)
                                                 EXCEPT
                                                 !.fn = "quiescence",
                                                 !.in_quiescence = TRUE],
                                              r.board, search_info.ply + 1))
                   /\ pc' = "q_enter"
    /\ last' = NoLast
    /\ UNCHANGED <<lastOp, ret, pre, shadow, arg, editsLeft, plyLimit,
                   searchFixed, control_rx, retval, retkind>>

\* Search::quiescence: the search of a capture has returned retval
QReturn ==
    /\ pc = "return"
    /\ Len(stack) > 1
    /\ stack[Len(stack) - 1].in_quiescence
    /\ LET f == stack[Len(stack) - 1]
           score == -retval
           cut == score >= f.beta
       IN  /\ board' = unmake(board)
           /\ search_info' = [search_info EXCEPT !.ply = @ - 1]
           /\ stack' = [SubSeq(stack, 1, Len(stack) - 1)
                           EXCEPT ![Len(stack) - 1] =
                               [f EXCEPT !.alpha = Max(f.alpha, score),
                                         !.i = @ + 1]]
           /\ pc' = IF cut THEN "return" ELSE "q_loop"
           /\ retval' = IF cut THEN f.beta ELSE retval
    /\ last' = NoLast
    /\ UNCHANGED <<lastOp, ret, pre, shadow, arg, editsLeft, plyLimit,
                   searchFixed, control_rx, retkind>>

\* Search::quiescence: the captures are exhausted
QExit ==
    /\ pc = "q_loop"
    /\ Top.i > Len(Top.move_list)
    /\ retval' = Top.alpha
    /\ retkind' = "quiescence"
    /\ pc' = "return"
    /\ last' = NoLast
    /\ UNCHANGED <<boardVars, searchFixed, control_rx, search_info, stack>>

----------------------------------------------------------------------------
(* The searches *)

\* 6k1/5ppp/8/8/8/8/8/R6K w - - 0 1
PosMateInOne ==
    Position({<<WHITE, KING, H1>>, <<WHITE, ROOK, A1>>,
              <<BLACK, KING, G8>>, <<BLACK, PAWN, 53>>, <<BLACK, PAWN, 54>>,
              <<BLACK, PAWN, 55>>},
             WHITE, 0, EP_NONE, 0, 1)

\* 7k/8/5K2/6Q1/8/8/8/8 w - - 0 1
PosQueenEnding ==
    Position({<<WHITE, KING, 45>>, <<WHITE, QUEEN, 38>>, <<BLACK, KING, H8>>},
             WHITE, 0, EP_NONE, 0, 1)

\* 6k1/5ppp/8/8/8/8/8/R6K w - - 99 60
PosFiftyMoves ==
    Position({<<WHITE, KING, H1>>, <<WHITE, ROOK, A1>>,
              <<BLACK, KING, G8>>, <<BLACK, PAWN, 53>>, <<BLACK, PAWN, 54>>,
              <<BLACK, PAWN, 55>>},
             WHITE, 0, EP_NONE, MAX_MOVE_RULE - 1, 60)

SearchPositions == {PosMateInOne, PosQueenEnding, PosFiftyMoves}

NodeLimit == 5
DepthLimit == 1

\* the search parameters and the commands waiting in the control channel
SearchSetups ==
    {<<[NoSearchParams EXCEPT !.search_mode = "Infinite"], <<>>>>,
     <<[NoSearchParams EXCEPT !.search_mode = "Infinite"], <<"Stop">>>>,
     <<[NoSearchParams EXCEPT !.search_mode = "Infinite"], <<"Quit">>>>,
     <<[NoSearchParams EXCEPT !.search_mode = "Nodes", !.nodes = NodeLimit],
       <<>>>>,
     <<[NoSearchParams EXCEPT !.search_mode = "Depth", !.depth = DepthLimit],
       <<>>>>,
     <<[NoSearchParams EXCEPT !.search_mode = "MoveTime"], <<"Quit">>>>}

InitSearch ==
    /\ board \in SearchPositions
    /\ editsLeft = 0
    /\ plyLimit = 0
    /\ lastOp = "init"
    /\ ret = TRUE
    /\ pre = EmptyBoard
    /\ shadow = <<>>
    /\ arg = NoMove
    /\ \E su \in SearchSetups : search_params = su[1] /\ control_rx = su[2]
    /\ completed = NoneCompleted
    /\ EngineIdle
    /\ search_info = IdleSearchInfo
    /\ stack = <<>>
    /\ pc = "idle"
    /\ retval = 0
    /\ retkind = "none"
    /\ last = NoLast

AbStartAny == \E d \in 1 .. MaxRootDepth : AbStart(d, -INF, INF)

\* Search::iterative_deepening: the root call has returned without being
\* interrupted; its best move and PV are recorded and the next depth begins
IterNext ==
    /\ pc = "return"
    /\ Len(stack) = 1
    /\ search_info.terminate = "Nothing"
    /\ Top.depth < MaxRootDepth
    /\ completed' = [depth |-> Top.depth,
                     best_move |-> search_info.best_move,
                     pv |-> search_info.pv]
    /\ stack' = <<Entered(Frame(Top.depth + 1, -INF, INF), board,
                           search_info.ply)>>
    /\ search_info' = [search_info EXCEPT !.depth = Top.depth + 1]
    /\ pc' = "enter"
    /\ last' = NoLast
    /\ UNCHANGED <<boardVars, search_params, control_rx, retval, retkind,
                   engineVars>>

NextSearch ==
    \/ AbStartAny \/ AbEnter \/ AbMove \/ AbReturn \/ AbExit
    \/ QEnter \/ QMove \/ QReturn \/ QExit
    \/ IterNext

SpecSearch == InitSearch /\ [][NextSearch]_vars

----------------------------------------------------------------------------
(* Properties of the board *)

\* C1: make(m) that returned true, followed by unmake(), leaves the board as
\* it was before the make: bitboards, occupancies, piece list, material,
\* irreversible state, Zobrist key and history.
MakeUnmakeRestores == lastOp = "unmake" => board = pre

\* An unmake has restored a position in which an en-passant square is set.
MakeUnmakeWitness ==
    lastOp = "unmake" /\ board = pre /\ board.game_state.en_passant # EP_NONE

\* C2: make returns true exactly when, with the move applied, the mover's
\* king is not attacked by the opponent; when it returns false the board is
\* the board before the call.
MakeRejectedRestores ==
    lastOp = "make" =>
        LET side == pre.game_state.active_color
            applied == apply_move(pre, arg)
        IN  /\ ret = ~square_attacked(applied, 1 - side,
                                       king_square(applied, side))
            /\ ~ret => board = pre

\* A pseudo-legal move that leaves the mover's king attacked was rejected.
MakeRejectedWitness == lastOp = "make" /\ ~ret /\ board = pre

\* C3: the incrementally maintained Zobrist key equals the key recomputed
\* from scratch by init_zobrist_key.
ZobristKeyConsistent ==
    board.game_state.zobrist_key = init_zobrist_key(board)

\* C4: each side's occupancy is the union of its six piece bitboards, and the
\* two occupancies are disjoint.
OccupancyInvariant ==
    /\ \A s \in Sides :
          board.bb_pieces[s] = UNION {board.bb_side[s][p] : p \in PieceTypes}
    /\ board.bb_pieces[WHITE] \cap board.bb_pieces[BLACK] = {}

\* A castling move has been made.
OccupancyWitness == lastOp = "make" /\ ret /\ arg.castling

\* C5: the piece list agrees with the piece bitboards on every square.
PieceListAgrees ==
    \A sq \in Squares :
        LET ps == {p \in PieceTypes : \E s \in Sides : sq \in board.bb_side[s][p]}
        IN  /\ \A p \in PieceTypes : board.piece_list[sq] = p <=> p \in ps
            /\ board.piece_list[sq] = PNONE <=> ps = {}

\* A pawn has captured and promoted.
PieceListWitness ==
    lastOp = "make" /\ ret /\ arg.promoted # PNONE /\ arg.captured # PNONE

\* C6: material_count[s] is the sum of the values of the pieces of s on the
\* bitboards; a counter that had wrapped below zero would differ from it.
MaterialCountConsistent ==
    \A s \in Sides :
        board.material_count[s] =
            PIECE_VALUES[KING] * Cardinality(board.bb_side[s][KING])
            + PIECE_VALUES[QUEEN] * Cardinality(board.bb_side[s][QUEEN])
            + PIECE_VALUES[ROOK] * Cardinality(board.bb_side[s][ROOK])
            + PIECE_VALUES[BISHOP] * Cardinality(board.bb_side[s][BISHOP])
            + PIECE_VALUES[KNIGHT] * Cardinality(board.bb_side[s][KNIGHT])
            + PIECE_VALUES[PAWN] * Cardinality(board.bb_side[s][PAWN])

\* A pawn has been captured en passant.
MaterialCountWitness == lastOp = "make" /\ ret /\ arg.en_passant

----------------------------------------------------------------------------
(* Properties of the search *)

\* the activation on top of the stack is a call of alpha_beta that has
\* returned retval
AlphaBetaReturned == pc = "return" /\ Top.fn = "alpha_beta"

\* the root call of the search has returned
RootReturned == AlphaBetaReturned /\ Len(stack) = 1

InCheck(b) == square_attacked(b, opponent(b), king_square(b, us(b)))

\* m is a legal move of b that checkmates
Mates(b, m) ==
    /\ m # NoMove
    /\ LET r == make_move(b, m)
       IN  r.is_legal /\ legal_moves(r.board) = <<>> /\ InCheck(r.board)

\* m checkmates and the position it leads to is not a draw by rule
MatesUndrawn(b, m) == Mates(b, m) /\ ~is_draw(make_move(b, m).board)

\* some generated move of b checkmates
HasMate(b) ==
    LET ml == gen_all_moves(b) IN \E i \in 1 .. Len(ml) : Mates(b, ml[i])

\* some generated move of b checkmates without drawing by rule
HasUndrawnMate(b) ==
    LET ml == gen_all_moves(b)
    IN  \E i \in 1 .. Len(ml) : MatesUndrawn(b, ml[i])

\* C7 as stated: every call of alpha_beta returns a value r with
\* alpha <= r <= beta, alpha and beta being the arguments of the call.
AlphaBetaFailHard ==
    AlphaBetaReturned => Top.alpha0 <= retval /\ retval <= Top.beta

\* C7: a call of alpha_beta returns a value r with alpha <= r <= beta unless
\* it returns the score of a node without a legal move found
\* (-CHECKMATE + ply or STALEMATE) or the static evaluation at
\* ply >= MAX_DEPTH; these two are returned whatever alpha and beta are.
AlphaBetaFailHardButNoMoves ==
    AlphaBetaReturned =>
        \/ retkind \in {"no_moves", "max_depth"}
        \/ Top.alpha0 <= retval /\ retval <= Top.beta

\* a call below the root has been cut off at beta by a score above beta
AlphaBetaCutoffWitness ==
    /\ AlphaBetaReturned
    /\ Len(stack) > 1
    /\ Top.depth >= 1
    /\ retkind = "cutoff"
    /\ retval = Top.beta
    /\ last.score > Top.beta

\* C8: a call of alpha_beta with depth >= 1 in a position where the side to
\* move has no legal move returns -CHECKMATE + ply if that side's king is
\* attacked and STALEMATE (0) if it is not.
NoLegalMoveScore ==
    (AlphaBetaReturned /\ Top.depth >= 1 /\ legal_moves(board) = <<>>) =>
        /\ retval = IF InCheck(board)
                    THEN -CHECKMATE + search_info.ply
                    ELSE STALEMATE
        /\ STALEMATE = 0 /\ DRAW = 0

\* a checkmated node one ply below the root has returned
NoLegalMoveWitness ==
    /\ AlphaBetaReturned
    /\ Top.depth >= 1
    /\ search_info.ply = 1
    /\ legal_moves(board) = <<>>
    /\ InCheck(board)
    /\ retval = -CHECKMATE + 1

\* the value and the best move of a search that has found a mate in one
FoundMateInOne ==
    /\ retval = CHECKMATE - 1
    /\ Mates(board, search_info.best_move)
    /\ search_info.pv # <<>>
    /\ Mates(board, search_info.pv[1])

\* C9 as stated: from a root position with a checkmating move, the
\* uninterrupted call alpha_beta(1, -INF, +INF) returns CHECKMATE - 1 and
\* records a checkmating move as best move and as head of the PV.
MateInOneAtDepthOne ==
    (/\ RootReturned
     /\ Top.depth = 1 /\ Top.alpha0 = -INF /\ Top.beta = INF
     /\ search_info.terminate = "Nothing"
     /\ HasMate(board)) => FoundMateInOne

\* C9: from a root position with a checkmating move that does not lead to
\* a draw by rule, the uninterrupted call alpha_beta(depth, -INF, +INF) with
\* depth >= 2 returns CHECKMATE - 1 and records a checkmating move as best
\* move and as head of the PV.
MateInOneFromDepthTwo ==
    (/\ RootReturned
     /\ Top.depth >= 2 /\ Top.alpha0 = -INF /\ Top.beta = INF
     /\ search_info.terminate = "Nothing"
     /\ HasUndrawnMate(board)) => FoundMateInOne

\* a search of depth >= 2 has returned the mate in one
MateInOneWitness ==
    /\ RootReturned
    /\ Top.depth >= 2
    /\ search_info.terminate = "Nothing"
    /\ HasUndrawnMate(board)
    /\ retval = CHECKMATE - 1
    /\ retkind = "alpha"

\* C10: a legal move made in alpha_beta that leads to a halfmove clock
\* >= MAX_MOVE_RULE is given the score DRAW and no recursive call is made
\* for it; so is every legal move, neither capture nor pawn move, made from
\* a position with halfmove clock 99.
FiftyMoveScoredDraw ==
    LET legal == last.kind \in {"draw", "recurse"}
        quiet == last.move.piece # PAWN /\ last.move.captured = PNONE
        drawn == last.kind = "draw" /\ last.score = DRAW /\ pc # "enter"
    IN  /\ (legal /\ last.hmc >= MAX_MOVE_RULE) => drawn
        /\ (legal /\ last.from_hmc = 99 /\ quiet) => drawn

\* a quiet move made with the clock at 99 has been scored as a draw
FiftyMoveWitness ==
    /\ last.kind = "draw"
    /\ last.from_hmc = 99
    /\ last.hmc >= MAX_MOVE_RULE
    /\ last.move.piece = ROOK
    /\ last.score = DRAW

----------------------------------------------------------------------------
(* Properties of the draw rules *)

\* the history snapshots at or after the most recent one whose halfmove
\* clock is 0 (all of them if there is none), as indices of board.history
RepetitionWindow(b) ==
    LET zeros == {i \in 1 .. Len(b.history) : b.history[i].halfmove_clock = 0}
    IN  {i \in 1 .. Len(b.history) : \A z \in zeros : i >= z}

\* C11: on a board with a non-empty history is_repetition returns a count
\* > 0 exactly when the current Zobrist key equals the key of a history
\* snapshot, the first one included, at or after the most recent snapshot
\* whose halfmove clock is 0.
RepetitionDetected ==
    board.history # <<>> =>
        (is_repetition(board) > 0 <=>
            \E i \in RepetitionWindow(board) :
                board.history[i].zobrist_key = board.game_state.zobrist_key)

\* The boards is_insufficient_material is asked about: the two kings and,
\* on each of the first MaxExtraPieces squares of ExtraSquares, nothing or
\* one piece of either side.
ExtraSquares == <<18, 21, 42, 45, 26, 29>>

ExtraPieces ==
    {<<>>} \cup {<<s, p>> : s \in Sides,
                            p \in {QUEEN, ROOK, BISHOP, KNIGHT, PAWN}}

MaterialBoard(extra) ==
    Position({<<WHITE, KING, E1>>, <<BLACK, KING, E8>>} \cup
             {<<extra[k][1], extra[k][2], ExtraSquares[k]>> :
                 k \in {k \in DOMAIN extra : extra[k] # <<>>}},
             WHITE, 0, EP_NONE, 0, 1)

InitMaterial ==
    /\ \E extra \in [1 .. MaxExtraPieces -> ExtraPieces] :
          /\ board = MaterialBoard(extra)
          /\ Playable(board)
    /\ editsLeft = 0
    /\ plyLimit = 0
    /\ lastOp = "init"
    /\ ret = TRUE
    /\ pre = EmptyBoard
    /\ shadow = <<>>
    /\ arg = NoMove
    /\ SearchIdle

\* Search::is_insufficient_material(refs) on the board
InsufficientMaterial ==
    /\ lastOp = "init"
    /\ ret' = is_insufficient_material(board)
    /\ lastOp' = "is_insufficient_material"
    /\ UNCHANGED <<board, pre, shadow, arg, editsLeft, plyLimit, searchVars>>

NextMaterial == InsufficientMaterial

SpecMaterial == InitMaterial /\ [][NextMaterial]_vars

\* the number of pieces of type p that side s has on the board
CountOf(s, p) == Cardinality({sq \in Squares : board.piece_list[sq] = p
                                 /\ sq \in board.bb_pieces[s]})

----------------------------------------------------------------------------
(* Properties of the termination of the search *)

\* C13: when the termination flag has become Stop or Quit during an
\* iteration, search_info.best_move and search_info.pv after the root call
\* has returned are those recorded for the last completed depth.
InterruptedKeepsCompleted ==
    (/\ pc = "return" /\ Len(stack) = 1
     /\ search_info.terminate \in {"Stop", "Quit"}
     /\ completed.depth >= 1
     /\ Top.depth > completed.depth) =>
        /\ search_info.best_move = completed.best_move
        /\ search_info.pv = completed.pv

\* C14: in search mode Infinite the termination flag leaves Nothing only in
\* a step that receives Stop or Quit from the control channel, and it then
\* becomes that command; depth, node count and elapsed time never set it.
InfiniteOnlyStops ==
    [][(/\ search_params.search_mode = "Infinite"
        /\ search_info.terminate = "Nothing"
        /\ search_info'.terminate # "Nothing") =>
            /\ control_rx # <<>>
            /\ Head(control_rx) \in {"Stop", "Quit"}
            /\ search_info'.terminate = Head(control_rx)
            /\ control_rx' = Tail(control_rx)]_vars

\* an Infinite search has passed a checkpoint beyond node 0 and runs on
InfiniteWitness ==
    /\ search_params.search_mode = "Infinite"
    /\ search_info.nodes > CHECK_TERMINATION
    /\ search_info.nodes >= search_params.nodes
    /\ search_info.depth > search_params.depth
    /\ search_info.elapsed >= search_params.move_time
    /\ search_info.terminate = "Nothing"

----------------------------------------------------------------------------
(* Text.  A string is modelled as the sequence of its characters. *)

WhiteSpace == {" ", "\n"}

\* str::trim_end
RECURSIVE trim_end(_)
trim_end(s) ==
    IF s # <<>> /\ s[Len(s)] \in WhiteSpace
    THEN trim_end(SubSeq(s, 1, Len(s) - 1))
    ELSE s

\* str::starts_with
starts_with(s, prefix) ==
    /\ Len(s) >= Len(prefix)
    /\ SubSeq(s, 1, Len(prefix)) = prefix

\* str::split_whitespace: the maximal runs free of white space
RECURSIVE split_whitespace(_)
split_whitespace(s) ==
    IF s = <<>> THEN <<>>
    ELSE IF Head(s) \in WhiteSpace THEN split_whitespace(Tail(s))
    ELSE LET run == CHOOSE n \in 1 .. Len(s) :
                       /\ \A i \in 1 .. n : s[i] \notin WhiteSpace
                       /\ n = Len(s) \/ s[n + 1] \in WhiteSpace
         IN  <<SubSeq(s, 1, run)>>
             \o split_whitespace(SubSeq(s, run + 1, Len(s)))

\* the command words of comm/xboard.rs:227-253
Txt ==
    [protover |-> <<"p", "r", "o", "t", "o", "v", "e", "r">>,
     ping |-> <<"p", "i", "n", "g">>,
     accepted |-> <<"a", "c", "c", "e", "p", "t", "e", "d">>,
     setboard |-> <<"s", "e", "t", "b", "o", "a", "r", "d">>,
     xboard |-> <<"x", "b", "o", "a", "r", "d">>,
     new |-> <<"n", "e", "w">>,
     post |-> <<"p", "o", "s", "t">>,
     nopost |-> <<"n", "o", "p", "o", "s", "t">>,
     analyze |-> <<"a", "n", "a", "l", "y", "z", "e">>,
     exit |-> <<"e", "x", "i", "t">>,
     quit |-> <<"q", "u", "i", "t">>,
     random |-> <<"r", "a", "n", "d", "o", "m">>,
     easy |-> <<"e", "a", "s", "y">>,
     hard |-> <<"h", "a", "r", "d">>,
     board |-> <<"b", "o", "a", "r", "d">>,
     history |-> <<"h", "i", "s", "t", "o", "r", "y">>,
     legal |-> <<"l", "e", "g", "a", "l">>,
     eval |-> <<"e", "v", "a", "l">>,
     help |-> <<"h", "e", "l", "p">>,
     question |-> <<"?">>,
     dot |-> <<".">>]

\* k7/8/8/8/8/8/8/7K w - - 6 40
FenKings ==
    <<"k", "7", "/", "8", "/", "8", "/", "8", "/", "8", "/", "8", "/", "8",
      "/", "7", "K", " ", "w", " ", "-", " ", "-", " ", "6", " ", "4", "0">>

\* 6k1/5ppp/8/8/8/8/8/R6K w - - 0 1
FenMateInOne ==
    <<"6", "k", "1", "/", "5", "p", "p", "p", "/", "8", "/", "8", "/", "8",
      "/", "8", "/", "8", "/", "R", "6", "K", " ", "w", " ", "-", " ", "-",
      " ", "0", " ", "1">>

\* a FEN string whose board part has seven ranks
FenShort ==
    <<"8", "/", "8", "/", "8", "/", "8", "/", "8", "/", "8", "/", "8", " ",
      "w", " ", "-", " ", "-", " ", "0", " ", "1">>

----------------------------------------------------------------------------
(* comm/xboard.rs: the XBoard report thread *)

XBoardReport(type, a) == [type |-> type, arg |-> a]

\* XBoard::parse_setboard: the words after "setboard", joined by one space
RECURSIVE setboard_fen(_, _, _)
setboard_fen(parts, token, fen) ==
    IF parts = <<>> THEN trim_end(fen)
    ELSE LET p == Head(parts)
         IN  IF p = Txt.setboard
             THEN setboard_fen(Tail(parts), "SetBoard", fen)
             ELSE IF token = "SetBoard"
             THEN setboard_fen(Tail(parts), token, fen \o p \o <<" ">>)
             ELSE setboard_fen(Tail(parts), token, fen)

parse_setboard(cmd) ==
    XBoardReport("SetBoard", setboard_fen(split_whitespace(cmd), "Nothing", <<>>))

\* XBoard::parse_accepted: the last word after "accepted", if there is one
RECURSIVE accepted_loop(_, _, _)
accepted_loop(parts, token, report) ==
    IF parts = <<>> THEN report
    ELSE LET p == Head(parts)
         IN  IF p = Txt.accepted
             THEN accepted_loop(Tail(parts), "Accepted", report)
             ELSE IF token = "Accepted"
             THEN accepted_loop(Tail(parts), token, XBoardReport("Accepted", p))
             ELSE accepted_loop(Tail(parts), token, report)

parse_accepted(cmd) ==
    accepted_loop(split_whitespace(cmd), "Nothing", XBoardReport("Unknown", cmd))

\* XBoard::create_report.  parse_protover and parse_ping read a number; the
\* report keeps the words of the line in its place.
create_report(input) ==
    LET i == trim_end(input)
    IN  CASE starts_with(i, Txt.protover) ->
                 XBoardReport("ProtoVer", split_whitespace(i))
          [] starts_with(i, Txt.ping) -> XBoardReport("Ping", split_whitespace(i))
          [] starts_with(i, Txt.accepted) -> parse_accepted(i)
          [] starts_with(i, Txt.setboard) -> parse_setboard(i)
          [] i = Txt.xboard -> XBoardReport("XBoard", <<>>)
          [] i = Txt.new -> XBoardReport("New", <<>>)
          [] i = Txt.question -> XBoardReport("Question", <<>>)
          [] i = Txt.post -> XBoardReport("Post", <<>>)
          [] i = Txt.nopost -> XBoardReport("NoPost", <<>>)
          [] i = Txt.analyze -> XBoardReport("Analyze", <<>>)
          [] i = Txt.dot -> XBoardReport("Dot", <<>>)
          [] i = Txt.exit -> XBoardReport("Exit", <<>>)
          [] i = Txt.quit -> XBoardReport("Quit", <<>>)
          [] i = Txt.random -> XBoardReport("Random", <<>>)
          [] i = Txt.easy -> XBoardReport("Easy", <<>>)
          [] i = Txt.hard -> XBoardReport("Hard", <<>>)
          [] i = Txt.board -> XBoardReport("Board", <<>>)
          [] i = Txt.history -> XBoardReport("History", <<>>)
          [] i = Txt.legal -> XBoardReport("Legal", <<>>)
          [] i = Txt.eval -> XBoardReport("Eval", <<>>)
          [] i = Txt.help -> XBoardReport("Help", <<>>)
          [] OTHER -> XBoardReport("Unknown", i)

----------------------------------------------------------------------------
(* The engine thread: engine.rs, engine/utils.rs, engine/comm_reports.rs,  *)
(* engine/search_reports.rs.  A handler is an operator on the record st of *)
(* what the engine thread can change: the board, the engine's own fields,  *)
(* the messages sent to the Comm module (comm_tx) and to the search        *)
(* (search_tx), and two counters kept for the properties: the calls of     *)
(* create_legal_move_list (lists) and the moves executed (applied).        *)

CommControl(type, fmt, a) == [type |-> type, fmt |-> fmt, arg |-> a]

\* the formats that begin with "# "
CommentFormats ==
    {"# {FEN_FAILED}", "# Command '{}' is unknown or not implemented.",
     "# {ENGINE} only supports XBoard version 2."}

comm_send(st, msg) == [st EXCEPT !.comm_tx = Append(@, msg)]

search_send(st, cmd) == [st EXCEPT !.search_tx = Append(@, cmd)]

\* Board::fen_read: a FEN string is either set up in full or rejected with
\* the board as it was
fen_read(b, fen) ==
    CASE fen = FenKings -> [ok |-> TRUE, board |-> PosKings]
      [] fen = FenMateInOne -> [ok |-> TRUE, board |-> PosMateInOne]
      [] OTHER -> [ok |-> FALSE, board |-> b]

Index(s, c) == CHOOSE i \in 1 .. Len(s) : s[i] = c

FileLetters == <<"a", "b", "c", "d", "e", "f", "g", "h">>
RankDigits == <<"1", "2", "3", "4", "5", "6", "7", "8">>
PromotionLetters == <<"q", "r", "b", "n">>
PromotionPieces == <<QUEEN, ROOK, BISHOP, KNIGHT>>

InSeq(s, c) == \E i \in 1 .. Len(s) : s[i] = c

\* parse::algebraic_move_to_number: "e2e4", "e7e8q" to (from, to, promoted)
algebraic_move_to_number(m) ==
    LET squares == /\ Len(m) \in {4, 5}
                   /\ InSeq(FileLetters, m[1]) /\ InSeq(RankDigits, m[2])
                   /\ InSeq(FileLetters, m[3]) /\ InSeq(RankDigits, m[4])
        promo == Len(m) = 5 => InSeq(PromotionLetters, m[5])
        Square(f, r) == (Index(RankDigits, r) - 1) * 8 + Index(FileLetters, f) - 1
    IN  IF squares /\ promo
        THEN [ok |-> TRUE,
              pm |-> <<Square(m[1], m[2]), Square(m[3], m[4]),
                       IF Len(m) = 5
                       THEN PromotionPieces[Index(PromotionLetters, m[5])]
                       ELSE PNONE>>]
        ELSE [ok |-> FALSE, pm |-> <<0, 0, 0>>]

\* Engine::create_legal_move_list
create_legal_move_list(st) ==
    [st EXCEPT !.engine.legal_moves = legal_moves(st.board),
               !.lists = @ + 1]

\* Engine::is_pseudo_legal_move, the loop over the move list ml: the first
\* move with the same from, to and promoted
first_match(pm, ml) ==
    LET hits == {i \in 1 .. Len(ml) : /\ pm[1] = ml[i].from
                                      /\ pm[2] = ml[i].to
                                      /\ pm[3] = ml[i].promoted}
    IN  IF hits = {} THEN [ok |-> FALSE, move |-> NoMove]
        ELSE [ok |-> TRUE,
              move |-> ml[CHOOSE i \in hits : \A j \in hits : i <= j]]

\* Engine::is_pseudo_legal_move
is_pseudo_legal_move(pm, b) == first_match(pm, gen_all_moves(b))

\* PotentialMove: what the parser returned, or (0, 0, 0)
potential_move(m) ==
    LET parsed == algebraic_move_to_number(m)
    IN  IF parsed.ok THEN parsed.pm ELSE <<0, 0, 0>>

\* Engine::execute_move, utils.rs:83-87: made is what board.make returned
after_make(st, made) ==
    IF made.is_legal
    THEN [is_legal |-> TRUE,
          st |-> create_legal_move_list(
                     [st EXCEPT !.board = made.board, !.applied = @ + 1])]
    ELSE [is_legal |-> FALSE, st |-> [st EXCEPT !.board = made.board]]

\* a slip: the value make returned is not looked at
after_plm_unchecked(st, is_plm) ==
    IF is_plm.ok
    THEN after_make(st, [make_move(st.board, is_plm.move)
                            EXCEPT !.is_legal = TRUE])
    ELSE [is_legal |-> FALSE, st |-> st]

\* Engine::execute_move, utils.rs:80-88: is_plm is what
\* is_pseudo_legal_move returned
after_plm(st, is_plm) ==
    IF is_plm.ok THEN after_make(st, make_move(st.board, is_plm.move))
    ELSE [is_legal |-> FALSE, st |-> st]

\* Engine::execute_move
execute_move(st, m) ==
    after_plm(st, is_pseudo_legal_move(potential_move(m), st.board))

\* Engine::quit
Engine_quit(st) ==
    [comm_send(search_send(st, "Quit"), CommControl("Quit", "", <<>>))
        EXCEPT !.engine.quit = TRUE]

\* SearchControl::Start(sp) for sp.search_mode Infinite
StartInfinite == "StartInfinite"

UciReport(type, fen, moves) == [type |-> type, fen |-> fen, moves |-> moves]

\* Engine::cr_uci, UciReport::Position: the loop over the moves; r is what
\* execute_move returned for the first of them
RECURSIVE position_moves(_, _)
position_step(r, moves) ==
    IF ~r.is_legal
    THEN comm_send(r.st, CommControl("InfoString", "{}: {NOT_LEGAL}",
                                     Head(moves)))
    ELSE position_moves(r.st, Tail(moves))

position_moves(st, moves) ==
    IF moves = <<>> THEN st
    ELSE position_step(execute_move(st, Head(moves)), moves)

\* a slip: the moves are played although the FEN string was rejected
uci_position_playOn(st, fen, moves) ==
    LET fen_result == fen_read(st.board, fen)
        st1 == [st EXCEPT !.board = fen_result.board]
    IN  IF fen_result.ok
        THEN position_moves(create_legal_move_list(st1), moves)
        ELSE comm_send(position_moves(st1, moves),
                       CommControl("InfoString", "{FEN_FAILED}", <<>>))

\* Engine::cr_uci, UciReport::Position
uci_position(st, fen, moves) ==
    LET fen_result == fen_read(st.board, fen)
        st1 == [st EXCEPT !.board = fen_result.board]
    IN  IF fen_result.ok
        THEN position_moves(create_legal_move_list(st1), moves)
        ELSE comm_send(st1, CommControl("InfoString", "{FEN_FAILED}", <<>>))

\* Engine::cr_uci, UciReport::UciNewGame: fen_read(FEN_START_POSITION),
\* which does not fail
uci_newgame(st) == [st EXCEPT !.board = PosStart]

\* Engine::cr_uci
cr_uci(st, r) ==
    CASE r.type = "Position" -> uci_position(st, r.fen, r.moves)
      [] r.type = "UciNewGame" -> uci_newgame(st)
      [] r.type = "GoInfinite" -> search_send(st, StartInfinite)
      [] r.type = "Stop" -> search_send(st, "Stop")
      [] r.type = "Quit" -> Engine_quit(st)
      [] r.type = "IsReady" -> comm_send(st, CommControl("Ready", "", <<>>))
      [] r.type = "Unknown" -> st

\* XBoardStat01::is_complete
stat01_is_complete(s) ==
    s.time # 0 /\ s.nodes # 0 /\ s.depth # 0 /\ s.curr_move # NoMove

FeatureNames ==
    {Txt.ping, Txt.setboard, <<"d", "o", "n", "e">>,
     <<"u", "s", "e", "r", "m", "o", "v", "e">>, <<"d", "e", "b", "u", "g">>,
     <<"s", "i", "g", "i", "n", "t">>, <<"s", "i", "g", "t", "e", "r", "m">>}

\* a slip: an unknown command is taken for "exit"
xboard_unknown_stops(st, cmd) ==
    search_send(comm_send(st, CommControl("Message",
        "# Command '{}' is unknown or not implemented.", cmd)), "Stop")

\* Engine::cr_xboard, XBoardReport::Unknown
xboard_unknown(st, cmd) ==
    comm_send(st, CommControl("Message",
        "# Command '{}' is unknown or not implemented.", cmd))

\* a slip: "exit" also forgets the setting made by post / nopost
xboard_exit_resetAll(st) ==
    search_send([st EXCEPT !.engine.stat01 = NewStat01,
                           !.engine.quiet = "No"], "Stop")

\* Engine::cr_xboard, XBoardReport::Exit
xboard_exit(st) ==
    search_send([st EXCEPT !.engine.stat01 = NewStat01], "Stop")

\* Engine::cr_xboard
cr_xboard(st, r) ==
    CASE r.type = "XBoard" -> comm_send(st, CommControl("Empty", "", <<>>))
      [] r.type = "ProtoVer" ->
            IF Len(r.arg) >= 2 /\ r.arg[Len(r.arg)] = <<"2">>
            THEN comm_send(comm_send(st, CommControl("Identify", "", <<>>)),
                           CommControl("Ready", "", <<>>))
            ELSE comm_send(st, CommControl("Message",
                     "# {ENGINE} only supports XBoard version 2.", <<>>))
      [] r.type = "Ping" -> comm_send(st, CommControl("Pong", "", r.arg))
      [] r.type = "Accepted" ->
            IF r.arg \in FeatureNames
            THEN [st EXCEPT !.engine.features = @ \cup {r.arg}]
            ELSE st
      [] r.type = "SetBoard" ->
            LET fen_result == fen_read(st.board, r.arg)
                st1 == [st EXCEPT !.board = fen_result.board]
            IN  IF fen_result.ok THEN create_legal_move_list(st1)
                ELSE comm_send(st1, CommControl("Message", "# {FEN_FAILED}",
                                                <<>>))
      [] r.type \in {"New", "Question"} -> st
      [] r.type = "Post" -> [st EXCEPT !.engine.quiet = "No"]
      [] r.type = "NoPost" -> [st EXCEPT !.engine.quiet = "Silent"]
      [] r.type = "Analyze" -> search_send(st, StartInfinite)
      [] r.type = "Dot" ->
            IF stat01_is_complete(st.engine.stat01)
            THEN comm_send(st, CommControl("AnalyzeStat01", "",
                                           st.engine.stat01))
            ELSE st
      [] r.type = "Exit" -> xboard_exit(st)
      [] r.type = "Quit" -> Engine_quit(st)
      [] r.type \in {"Random", "Easy", "Hard"} -> st
      [] r.type = "Board" -> comm_send(st, CommControl("PrintBoard", "", <<>>))
      [] r.type = "History" ->
            comm_send(st, CommControl("PrintHistory", "", <<>>))
      [] r.type = "Legal" ->
            comm_send(st, CommControl("PrintLegal", "", st.engine.legal_moves))
      [] r.type = "Eval" ->
            comm_send(st, CommControl("PrintEval", "",
                                      evaluate_position(st.board)))
      [] r.type = "Help" -> comm_send(st, CommControl("PrintHelp", "", <<>>))
      [] r.type = "Unknown" -> xboard_unknown(st, r.arg)

SearchReport(type, a) == [type |-> type, arg |-> a]

\* Engine::search_reports
search_reports(st, r) ==
    LET xboard == st.engine.comm = "xboard"
        silent == st.engine.quiet = "Silent"
    IN  CASE r.type = "Finished" ->
                comm_send(st, CommControl("BestMove", "", r.arg))
          [] r.type = "SearchSummary" ->
                LET st1 == IF xboard
                           THEN [st EXCEPT !.engine.stat01.time = r.arg.time,
                                           !.engine.stat01.nodes = r.arg.nodes,
                                           !.engine.stat01.depth = r.arg.depth]
                           ELSE st
                IN  IF ~silent
                    THEN comm_send(st1, CommControl("SearchSummary", "", r.arg))
                    ELSE st1
          [] r.type = "SearchCurrentMove" ->
                LET total_moves == Len(st.engine.legal_moves)
                    st1 == IF xboard
                           THEN [st EXCEPT
                                   !.engine.stat01.moves_left =
                                       total_moves - r.arg.curr_move_number,
                                   !.engine.stat01.total_moves = total_moves,
                                   !.engine.stat01.curr_move = r.arg.curr_move]
                           ELSE st
                IN  IF ~xboard /\ st.engine.quiet = "No"
                    THEN comm_send(st1, CommControl("SearchCurrMove", "", r.arg))
                    ELSE st1
          [] r.type = "SearchStats" ->
                LET st1 == IF xboard
                           THEN [st EXCEPT !.engine.stat01.time = r.arg.time,
                                           !.engine.stat01.nodes = r.arg.nodes]
                           ELSE st
                IN  IF ~xboard /\ st.engine.quiet = "No"
                    THEN comm_send(st1, CommControl("SearchStats", "", r.arg))
                    ELSE st1

Information(src, report) == [src |-> src, report |-> report]

\* Engine::main_loop, one turn: the report received is handled in full
handle_information(st, information) ==
    CASE information.src = "Search" -> search_reports(st, information.report)
      [] information.src = "Uci" -> cr_uci(st, information.report)
      [] information.src = "XBoard" -> cr_xboard(st, information.report)

----------------------------------------------------------------------------
(* The engine with its three threads: the Comm report thread reading the   *)
(* GUI's lines, the engine thread, and the search worker.  The search is   *)
(* reduced to what the engine sees of it: it takes commands from           *)
(* control_rx, polls check_termination while it runs, and reports.         *)

MaxLines == 3
MaxPositions == 2
MaxMoves == 2

\* the lines a GUI sends in XBoard mode
XBoardLines ==
    {Txt.analyze, Txt.exit \o <<"\n">>, Txt.dot, Txt.quit, Txt.nopost,
     <<" ">> \o Txt.exit, <<>>, Txt.ping \o <<" ", "1">>,
     Txt.ping \o <<"p", "o", "n", "g">>}

\* its lines that set up a position
SetBoardLines ==
    {Txt.setboard \o <<" ">> \o FenMateInOne \o <<"\n">>,
     Txt.setboard \o <<" ">> \o FenKings,
     Txt.setboard \o <<" ">> \o FenShort,
     Txt.setboard}

\* h1g1, a1a8, g8f8, and a word that is no move
MoveTexts ==
    {<<"h", "1", "g", "1">>, <<"a", "1", "a", "8">>, <<"g", "8", "f", "8">>,
     <<"e", "x", "i", "t">>}

RECURSIVE SeqsUpTo(_, _)
SeqsUpTo(S, n) ==
    IF n = 0 THEN {<<>>}
    ELSE LET shorter == SeqsUpTo(S, n - 1)
         IN  shorter \cup {Append(s, x) : s \in shorter, x \in S}

\* the reports the UCI module sends
UciReports ==
    {UciReport(type, <<>>, <<>>) :
        type \in {"GoInfinite", "Stop", "Quit", "Unknown"}}

\* its reports that set up a position
PositionReports ==
    {UciReport("Position", FenMateInOne, moves) :
        moves \in SeqsUpTo(MoveTexts, MaxMoves)}
    \cup {UciReport("Position", FenShort, moves) :
            moves \in SeqsUpTo({<<"a", "1", "a", "8">>}, MaxMoves)}

\* the positions set up later in a session come without moves
LaterPositionReports ==
    {UciReport("Position", fen, <<>>) : fen \in {FenKings, FenShort}}
    \cup {UciReport("UciNewGame", <<>>, <<>>)}

EngineTrace(lines) ==
    [NoTrace EXCEPT !.lines = lines]

EngineStarts(lines) ==
    /\ board = PosKings
    /\ lastOp = "init"
    /\ ret = TRUE
    /\ pre = EmptyBoard
    /\ shadow = <<>>
    /\ arg = NoMove
    /\ editsLeft = 0
    /\ plyLimit = 0
    /\ search_params = NoSearchParams
    /\ completed = NoneCompleted
    /\ control_rx = <<>>
    /\ search_info = IdleSearchInfo
    /\ stack = <<>>
    /\ pc = "idle"
    /\ retval = 0
    /\ retkind = "none"
    /\ last = NoLast
    /\ \E protocol \in {"uci", "xboard"} :
          engine = [NewEngine(protocol) EXCEPT !.legal_moves = legal_moves(board)]
    /\ comm_tx = <<>>
    /\ info_rx = <<>>
    /\ trace = EngineTrace(lines)

InitEngine == EngineStarts(MaxLines)

workerVars == <<search_params, control_rx, search_info, pc>>
unusedVars == <<lastOp, ret, pre, shadow, arg, editsLeft, plyLimit, stack,
                retval, retkind, last, completed>>

CommPending == \E i \in 1 .. Len(info_rx) : info_rx[i].src # "Search"

\* the Comm module's report thread sends the report made from one line.
\* Lines arrive one at a time: the order in which the engine thread handles
\* reports is the same as with lines queued up.
Receive(line, information) ==
    /\ trace.lines > 0
    /\ ~CommPending
    /\ info_rx' = Append(info_rx, information)
    /\ trace' = [trace EXCEPT
                   !.line = line,
                   !.lines = IF information.report.type = "Quit" THEN 0
                             ELSE @ - 1]
    /\ UNCHANGED <<board, engine, comm_tx, workerVars, unusedVars>>

\* XBoard::report_thread
XBoardReportThread ==
    /\ engine.comm = "xboard"
    /\ \E line \in XBoardLines :
          Receive(line, Information("XBoard", create_report(line)))

\* Uci::report_thread
UciReportThread ==
    /\ engine.comm = "uci"
    /\ \E r \in UciReports : Receive(<<>>, Information("Uci", r))

\* no search is running and none has been asked for
SearchQuiet ==
    /\ pc = "idle"
    /\ \A i \in 1 .. Len(control_rx) : control_rx[i] # StartInfinite

\* the reports whose handlers lock the board
LocksBoard(information) ==
    /\ information.src # "Search"
    /\ information.report.type \in {"Position", "SetBoard", "Eval",
                                    "UciNewGame"}

\* Engine::main_loop: the next Information is received and handled.  The
\* search holds the board's mutex while it runs.
MainLoop ==
    /\ ~engine.quit
    /\ info_rx # <<>>
    /\ LocksBoard(Head(info_rx)) => pc # "running"
    /\ LET information == Head(info_rx)
           st == [board |-> board, engine |-> engine, comm_tx |-> comm_tx,
                  search_tx |-> <<>>, lists |-> 0, applied |-> 0]
       IN  \E st1 \in {handle_information(st, information)} :
           /\ board' = st1.board
           /\ engine' = st1.engine
           /\ comm_tx' = st1.comm_tx
           /\ control_rx' = control_rx \o st1.search_tx
           /\ trace' = [trace EXCEPT
                          !.report = information,
                          !.lists = st1.lists,
                          !.applied = st1.applied,
                          !.idle = SearchQuiet,
                          !.stat01 = engine.stat01,
                          !.exited =
                              IF information.src # "XBoard" THEN @
                              ELSE IF information.report.type = "Exit"
                              THEN TRUE
                              ELSE IF information.report.type = "Analyze"
                              THEN FALSE ELSE @,
                          !.sent_idle = @ \o [i \in 1 .. Len(st1.search_tx) |->
                                                 SearchQuiet]]
    /\ info_rx' = Tail(info_rx)
    /\ UNCHANGED <<search_params, search_info, pc, unusedVars>>

\* the worker's loop, waiting for a command: Start begins a search, Quit
\* ends the thread, Stop is dropped
worker_idle(cmd, si) ==
    IF cmd = StartInfinite
    THEN [pc |-> "running", search_info |-> IdleSearchInfo]
    ELSE IF cmd = "Quit" THEN [pc |-> "exit", search_info |-> si]
    ELSE [pc |-> "idle", search_info |-> si]

WorkerReceive ==
    /\ pc = "idle"
    /\ control_rx # <<>>
    /\ LET w == worker_idle(Head(control_rx), search_info)
       IN  /\ pc' = w.pc
           /\ search_info' = w.search_info
           /\ search_params' =
                 IF Head(control_rx) = StartInfinite
                 THEN [NoSearchParams EXCEPT !.search_mode = "Infinite"]
                 ELSE search_params
    /\ control_rx' = Tail(control_rx)
    /\ trace' = [trace EXCEPT !.sent_idle = Tail(@)]
    /\ UNCHANGED <<board, engine, comm_tx, info_rx, unusedVars>>

\* a checkpoint of the running search
WorkerCheckpoint ==
    /\ pc = "running"
    /\ search_info.terminate = "Nothing"
    /\ control_rx # <<>>
    /\ search_info' = check_termination(search_info, search_params, control_rx)
    /\ control_rx' = Tail(control_rx)
    /\ trace' = [trace EXCEPT !.sent_idle = Tail(@)]
    /\ UNCHANGED <<board, engine, comm_tx, info_rx, search_params, pc,
                   unusedVars>>

\* an iteration is complete: the search reports its summary and the move
\* it is looking at
WorkerSummary ==
    /\ pc = "running"
    /\ search_info.terminate = "Nothing"
    /\ search_info.depth = 0
    /\ Len(legal_moves(board)) > 0
    /\ search_info' = [search_info EXCEPT !.depth = 1, !.nodes = 1]
    /\ info_rx' = info_rx \o
          <<Information("Search", SearchReport("SearchCurrentMove",
                [curr_move |-> legal_moves(board)[1], curr_move_number |-> 1])),
            Information("Search", SearchReport("SearchSummary",
                [time |-> 1, nodes |-> 1, depth |-> 1]))>>
    /\ UNCHANGED <<board, engine, comm_tx, control_rx, search_params, pc,
                   trace, unusedVars>>

\* the search is over, interrupted or out of depth: Finished is reported,
\* or after Quit the thread ends
WorkerFinish ==
    /\ pc = "running"
    /\ search_info.terminate # "Nothing" \/ search_info.depth > 0
       \/ Len(legal_moves(board)) = 0
    /\ IF search_info.terminate = "Quit"
       THEN pc' = "exit" /\ info_rx' = info_rx
       ELSE /\ pc' = "idle"
            /\ info_rx' = Append(info_rx, Information("Search",
                              SearchReport("Finished", search_info.best_move)))
    /\ UNCHANGED <<board, engine, comm_tx, control_rx, search_params,
                   search_info, trace, unusedVars>>

NextEngine ==
    \/ XBoardReportThread \/ UciReportThread \/ MainLoop
    \/ WorkerReceive \/ WorkerCheckpoint \/ WorkerSummary \/ WorkerFinish

SpecEngine == InitEngine /\ [][NextEngine]_vars

\* The engine setting up positions while no search runs.
InitPosition == EngineStarts(MaxPositions)

XBoardSetBoardThread ==
    /\ engine.comm = "xboard"
    /\ \E line \in SetBoardLines :
          Receive(line, Information("XBoard", create_report(line)))

UciPositionThread ==
    /\ engine.comm = "uci"
    /\ \E r \in IF trace.lines = MaxPositions THEN PositionReports
                ELSE LaterPositionReports :
          Receive(<<>>, Information("Uci", r))

NextPosition == XBoardSetBoardThread \/ UciPositionThread \/ MainLoop

SpecPosition == InitPosition /\ [][NextPosition]_vars

----------------------------------------------------------------------------
(* Properties of the engine thread *)

\* the engine thread handles a stop request (UCI stop, XBoard exit) while
\* no search is running and none has been asked for
StopRequestWhileIdle ==
    /\ info_rx # <<>>
    /\ info_rx' = Tail(info_rx)
    /\ Head(info_rx).src # "Search"
    /\ Head(info_rx).report.type \in {"Stop", "Exit"}
    /\ SearchQuiet

\* the idle worker takes a Stop from its control channel
WorkerDropsStop ==
    /\ pc = "idle"
    /\ control_rx # <<>>
    /\ Head(control_rx) = "Stop"
    /\ control_rx' = Tail(control_rx)

\* a search begins with the termination flag clear, and the flag becomes
\* Stop only by a Stop that was sent after the search had been asked for
NoEarlyTermination ==
    /\ (pc = "idle" /\ pc' = "running") => search_info'.terminate = "Nothing"
    /\ (/\ pc = "running"
        /\ search_info.terminate = "Nothing"
        /\ search_info'.terminate # "Nothing") =>
            /\ control_rx # <<>>
            /\ search_info'.terminate = Head(control_rx)
            /\ ~Head(trace.sent_idle)

\* C15 as stated: a stop request that arrives while no search is running
\* changes neither the board nor any engine or search state and sends
\* nothing to the GUI, the worker drops the Stop without a report, and no
\* later search is terminated by it.
StopWhileIdleIsNoOp ==
    [][/\ StopRequestWhileIdle =>
            /\ board' = board
            /\ engine' = engine
            /\ comm_tx' = comm_tx
            /\ <<search_params', search_info', pc'>>
                  = <<search_params, search_info, pc>>
       /\ WorkerDropsStop =>
            /\ info_rx' = info_rx
            /\ <<board', search_params', search_info', pc'>>
                  = <<board, search_params, search_info, pc>>
       /\ NoEarlyTermination]_vars

\* C15, amended: as above, except that XBoard's exit resets the engine's
\* stat01 record; every other field of the engine is unchanged.
StopWhileIdleResetsStat01Only ==
    [][/\ StopRequestWhileIdle =>
            /\ board' = board
            /\ engine' = [engine EXCEPT
                             !.stat01 = IF Head(info_rx).report.type = "Exit"
                                        THEN NewStat01 ELSE @]
            /\ comm_tx' = comm_tx
            /\ <<search_params', search_info', pc'>>
                  = <<search_params, search_info, pc>>
       /\ WorkerDropsStop =>
            /\ info_rx' = info_rx
            /\ <<board', search_params', search_info', pc'>>
                  = <<board, search_params, search_info, pc>>
       /\ NoEarlyTermination]_vars

\* exit has been handled while no search was running and stat01 held the
\* figures of an earlier search
StopWhileIdleWitness ==
    /\ trace.report.src = "XBoard"
    /\ trace.report.report.type = "Exit"
    /\ trace.idle
    /\ trace.stat01.depth > 0
    /\ engine.stat01 = NewStat01

\* the engine thread handles a position / setboard report whose FEN string
\* fen_read rejects
FenRejected ==
    /\ info_rx # <<>>
    /\ info_rx' = Tail(info_rx)
    /\ Head(info_rx).src # "Search"
    /\ Head(info_rx).report.type \in {"Position", "SetBoard"}
    /\ ~fen_read(board, IF Head(info_rx).report.type = "Position"
                        THEN Head(info_rx).report.fen
                        ELSE Head(info_rx).report.arg).ok

\* C16: a position or setboard report with a FEN string that fen_read
\* rejects leaves the board unchanged, applies no move, does not regenerate
\* the legal-move list, sends exactly one error message (an InfoString for
\* UCI, a "# " message for XBoard) and leaves the engine running.
FenRejectedKeepsBoard ==
    [][FenRejected =>
          /\ board' = board
          /\ trace'.applied = 0
          /\ trace'.lists = 0
          /\ engine' = engine
          /\ ~engine'.quit
          /\ control_rx' = control_rx
          /\ Len(comm_tx') = Len(comm_tx) + 1
          /\ SubSeq(comm_tx', 1, Len(comm_tx)) = comm_tx
          /\ LET msg == comm_tx'[Len(comm_tx')]
             IN  IF Head(info_rx).src = "Uci"
                 THEN msg.type = "InfoString" /\ msg.fmt = "{FEN_FAILED}"
                 ELSE msg.type = "Message" /\ msg.fmt = "# {FEN_FAILED}"]_vars

\* after a position report with moves whose FEN string was rejected, a
\* later position report has been handled and has set up its position
FenRejectedWitness ==
    /\ Len(comm_tx) = 1
    /\ comm_tx[1].fmt = "{FEN_FAILED}"
    /\ trace.report.src = "Uci"
    /\ trace.report.report.fen = FenKings
    /\ trace.lists = 1
    /\ trace.lines = 0
    /\ board = PosKings

\* the long-algebraic text of a move: "e2e4", "e7e8q"
as_string(m) ==
    <<FileLetters[(m.from % 8) + 1], RankDigits[(m.from \div 8) + 1],
      FileLetters[(m.to % 8) + 1], RankDigits[(m.to \div 8) + 1]>>
    \o (IF m.promoted = PNONE THEN <<>>
        ELSE <<PromotionLetters[Index(PromotionPieces, m.promoted)]>>)

\* the legal moves of the list lm that are written as text
Written(lm, text) == SelectSeq(lm, LAMBDA m : as_string(m) = text)

\* The moves of a position report that are to be played from board b, as
\* C17 has it: each move in turn that is a legal move of the position
\* reached, up to the first that is not.  The result is the board reached
\* and the number of moves played.
RECURSIVE PlayedFrom(_, _)
PlayedHead(b, hits, moves) ==
    IF hits = <<>> THEN [board |-> b, played |-> 0]
    ELSE [PlayedFrom(make_move(b, hits[1]).board, Tail(moves))
             EXCEPT !.played = @ + 1]

PlayedFrom(b, moves) ==
    IF moves = <<>> THEN [board |-> b, played |-> 0]
    ELSE PlayedHead(b, Written(legal_moves(b), Head(moves)), moves)

\* the engine thread handles a UCI position report whose FEN string is
\* accepted
PositionAccepted ==
    /\ info_rx # <<>>
    /\ info_rx' = Tail(info_rx)
    /\ Head(info_rx).src = "Uci"
    /\ Head(info_rx).report.type = "Position"
    /\ fen_read(board, Head(info_rx).report.fen).ok

\* what C17 says of the step, given the moves and the result due
PositionPlayed(moves, due) ==
    /\ board' = due.board
    /\ trace'.applied = due.played
    /\ IF due.played = Len(moves) THEN comm_tx' = comm_tx
       ELSE comm_tx' = Append(comm_tx,
                CommControl("InfoString", "{}: {NOT_LEGAL}",
                            moves[due.played + 1]))

\* C17: a UCI position report with an accepted FEN string and moves
\* m1..mn plays the moves in order up to, not including, the first mi that
\* is not a legal move of the position reached; mi leaves the board as it
\* is, nothing after it is played, and exactly one InfoString naming mi is
\* sent.  If all moves are legal all are played and no InfoString is sent.
PositionMovesUpToIllegal ==
    [][PositionAccepted =>
          PositionPlayed(Head(info_rx).report.moves,
                         PlayedFrom(fen_read(board, Head(info_rx).report.fen).board,
                                    Head(info_rx).report.moves))]_vars

\* a1a8 has been played and g8f8, which leaves the king in check, has been
\* turned down
PositionMovesWitness ==
    /\ trace.report.src = "Uci"
    /\ trace.report.report.type = "Position"
    /\ trace.report.report.moves
          = <<<<"a", "1", "a", "8">>, <<"g", "8", "f", "8">>>>
    /\ trace.applied = 1
    /\ comm_tx # <<>>
    /\ comm_tx[Len(comm_tx)].arg = <<"g", "8", "f", "8">>
    /\ Len(board.history) = 1

\* the commands of one word, and those that take arguments
BareCommands ==
    {Txt.xboard, Txt.new, Txt.question, Txt.post, Txt.nopost, Txt.analyze,
     Txt.dot, Txt.exit, Txt.quit, Txt.random, Txt.easy, Txt.hard, Txt.board,
     Txt.history, Txt.legal, Txt.eval, Txt.help}

ArgumentCommands == {Txt.protover, Txt.ping, Txt.accepted, Txt.setboard}

\* the words of a line, given that it is a command: the line begins with
\* its first word, which is a command taking arguments, or the line is one
\* command word
CommandWords(line, words) ==
    /\ words # <<>>
    /\ starts_with(line, words[1])
    /\ \/ words[1] \in ArgumentCommands
       \/ Len(words) = 1 /\ words[1] \in BareCommands

Recognised(line) == CommandWords(line, split_whitespace(line))

\* the report thread has read a line in XBoard mode
LineRead == engine.comm = "xboard" /\ trace'.lines < trace.lines

\* the engine thread handles an Unknown report
UnknownHandled ==
    /\ info_rx # <<>>
    /\ info_rx' = Tail(info_rx)
    /\ Head(info_rx).src # "Search"
    /\ Head(info_rx).report.type = "Unknown"

\* C18: a line that is not a recognised command becomes exactly one
\* Unknown report, and the engine ignores that report: board, legal-move
\* list, settings and search are unchanged and nothing is sent to the
\* search; in XBoard mode one "# ..." message goes to the GUI, in UCI mode
\* nothing.
UnknownLineIgnored ==
    [][/\ (LineRead /\ ~Recognised(trace'.line)) =>
            /\ Len(info_rx') = Len(info_rx) + 1
            /\ info_rx'[Len(info_rx')].src = "XBoard"
            /\ info_rx'[Len(info_rx')].report.type = "Unknown"
       /\ UnknownHandled =>
            /\ board' = board
            /\ engine' = engine
            /\ control_rx' = control_rx
            /\ <<search_params', search_info', pc'>>
                  = <<search_params, search_info, pc>>
            /\ IF Head(info_rx).src = "Uci" THEN comm_tx' = comm_tx
               ELSE /\ Len(comm_tx') = Len(comm_tx) + 1
                    /\ SubSeq(comm_tx', 1, Len(comm_tx)) = comm_tx
                    /\ comm_tx'[Len(comm_tx')].type = "Message"
                    /\ comm_tx'[Len(comm_tx')].fmt \in CommentFormats]_vars

----------------------------------------------------------------------------
(* perft.  main (main.rs:18-34) builds the board of the standard starting   *)
(* position and runs perft::bench(6): perft at the depths 1, 2, ... on     *)
(* that board.  perft counts the leaves of the tree of legal moves: it     *)
(* generates the moves, makes each one, counts the leaves below the ones   *)
(* make accepts, and unmakes them.  One activation of perft is one frame   *)
(* of stack; pc is "enter" at its entry, "loop" at the head of its move    *)
(* loop, "return" when it has returned retval, and "done" when the call    *)
(* bench made has returned.                                                *)

MaxPerftDepth == 4

PerftFrame(depth) ==
    [depth |-> depth, move_list |-> <<>>, i |-> 1, leaf_nodes |-> 0,
     fn |-> "perft"]

\* leaf_nodes += perft(board, depth - 1, mg), and on to the next move
perft_add(f, leaves) ==
    [f EXCEPT !.leaf_nodes = @ + leaves, !.i = @ + 1]

InitPerft ==
    /\ board = PosStart
    /\ editsLeft = 0
    /\ plyLimit = 0
    /\ lastOp = "init"
    /\ ret = TRUE
    /\ pre = EmptyBoard
    /\ shadow = <<>>
    /\ arg = NoMove
    /\ SearchIdle

perftFixed == <<lastOp, ret, pre, shadow, arg, editsLeft, plyLimit,
                search_params, control_rx, search_info, retkind, last,
                completed, engineVars>>

\* perft::bench: the call perft(depth) on the board, for the first depth and
\* then for the next depth each time the call before has returned
PerftBench ==
    /\ \/ pc = "idle" /\ stack' = <<PerftFrame(1)>>
       \/ /\ pc = "done"
          /\ Top.depth < MaxPerftDepth
          /\ stack' = <<PerftFrame(Top.depth + 1)>>
    /\ pc' = "enter"
    /\ UNCHANGED <<board, retval, perftFixed>>

\* perft: a call with depth 0 is a leaf and returns 1; any other call
\* generates the moves of the position
PerftEnter ==
    /\ pc = "enter"
    /\ Top.fn = "perft"
    /\ IF Top.depth = 0
       THEN /\ retval' = 1
            /\ pc' = "return"
            /\ stack' = stack
       ELSE /\ stack' = SetTop([Top EXCEPT !.move_list = gen_all_moves(board)])
            /\ pc' = "loop"
            /\ retval' = retval
    /\ UNCHANGED <<board, perftFixed>>

\* perft: one turn of the move loop.  A move make accepts starts the
\* recursive call; a move it refuses (and has taken back) is skipped.
PerftMove ==
    /\ pc = "loop"
    /\ Top.fn = "perft"
    /\ Top.i <= Len(Top.move_list)
    /\ \E r \in {make_move(board, Top.move_list[Top.i])} :
          /\ board' = r.board
          /\ IF r.is_legal
             THEN /\ stack' = Append(stack, PerftFrame(Top.depth - 1))
                  /\ pc' = "enter"
             ELSE /\ stack' = SetTop([Top EXCEPT !.i = @ + 1])
                  /\ pc' = "loop"
    /\ UNCHANGED <<retval, perftFixed>>

\* perft: the recursive call has returned retval; the move is unmade
PerftReturn ==
    /\ pc = "return"
    /\ Len(stack) > 1
    /\ Top.fn = "perft"
    /\ board' = unmake(board)
    /\ stack' = [k \in 1 .. Len(stack) - 1 |->
                   IF k = Len(stack) - 1 THEN perft_add(stack[k], retval)
                   ELSE stack[k]]
    /\ pc' = "loop"
    /\ UNCHANGED <<retval, perftFixed>>

\* perft: the move loop has ended; the call returns leaf_nodes
PerftLoopEnd ==
    /\ pc = "loop"
    /\ Top.fn = "perft"
    /\ Top.i > Len(Top.move_list)
    /\ retval' = Top.leaf_nodes
    /\ pc' = "return"
    /\ UNCHANGED <<board, stack, perftFixed>>

\* perft::bench: the call it made has returned
PerftExit ==
    /\ pc = "return"
    /\ Len(stack) = 1
    /\ Top.fn = "perft"
    /\ pc' = "done"
    /\ UNCHANGED <<board, stack, retval, perftFixed>>

NextPerft ==
    \/ PerftBench \/ PerftEnter \/ PerftMove \/ PerftReturn
    \/ PerftLoopEnd \/ PerftExit

SpecPerft == InitPerft /\ [][NextPerft]_vars

\* the perft results of the standard starting position, depths 1 to 6
PerftStartPosition == <<20, 400, 8902, 197281, 4865609, 119060324>>

----------------------------------------------------------------------------
(* Move ordering: the loop of alpha_beta.rs:76-86 on its own.  For every   *)
(* index i of the move list, in turn, pick_move(list, i) brings the best   *)
(* of [i ..] to slot i and get_move(i) takes it.  The frame keeps, beside  *)
(* the list and the index, the list as it was given and the moves taken.   *)

MaxListLen == 4
MaxSortScore == 2

\* a move list of distinct moves, the k-th with the sort score scores[k]
ScoredList(scores) ==
    [k \in 1 .. Len(scores) |->
        [Move(PAWN, Sq(k - 1, 1), Sq(k - 1, 2), PNONE, PNONE,
              FALSE, FALSE, FALSE) EXCEPT !.score = scores[k]]]

OrderingFrame(ml) ==
    [move_list |-> ml, i |-> 1, given |-> ml, visited |-> <<>>,
     fn |-> "ordering"]

InitOrdering ==
    /\ board = PosStart
    /\ editsLeft = 0
    /\ plyLimit = 0
    /\ lastOp = "init"
    /\ ret = TRUE
    /\ pre = EmptyBoard
    /\ shadow = <<>>
    /\ arg = NoMove
    /\ search_params = NoSearchParams
    /\ completed = NoneCompleted
    /\ EngineIdle
    /\ control_rx = <<>>
    /\ search_info = IdleSearchInfo
    /\ \E n \in 0 .. MaxListLen :
          \E scores \in [1 .. n -> 0 .. MaxSortScore] :
             stack = <<OrderingFrame(ScoredList(scores))>>
    /\ pc = "loop"
    /\ retval = 0
    /\ retkind = "none"
    /\ last = NoLast

\* alpha_beta.rs:84-86: pick_move(&mut move_list, i), then get_move(i)
PickAndGet ==
    /\ pc = "loop"
    /\ Top.fn = "ordering"
    /\ Top.i <= Len(Top.move_list)
    /\ \E ml \in {pick_move(Top.move_list, Top.i)} :
          stack' = SetTop([Top EXCEPT !.move_list = ml,
                                      !.visited = Append(@, ml[Top.i]),
                                      !.i = @ + 1])
    /\ UNCHANGED <<board, pc, retval, perftFixed>>

\* alpha_beta.rs:76: the range 0 .. move_list.len() is exhausted
PickLoopEnd ==
    /\ pc = "loop"
    /\ Top.fn = "ordering"
    /\ Top.i > Len(Top.move_list)
    /\ pc' = "done"
    /\ UNCHANGED <<board, stack, retval, perftFixed>>

NextOrdering == PickAndGet \/ PickLoopEnd

SpecOrdering == InitOrdering /\ [][NextOrdering]_vars

\* how often m occurs in the list s
Occurrences(s, m) == Cardinality({k \in DOMAIN s : s[k] = m})

SameMoves(s, t) ==
    /\ Len(s) = Len(t)
    /\ \A k \in DOMAIN s : Occurrences(s, s[k]) = Occurrences(t, s[k])

\* a full descending sort of the list by score (insertion sort)
RECURSIVE sort_insert(_, _)
sort_insert(sorted, m) ==
    IF sorted = <<>> THEN <<m>>
    ELSE IF Head(sorted).score >= m.score
         THEN <<Head(sorted)>> \o sort_insert(Tail(sorted), m)
         ELSE <<m>> \o sorted

RECURSIVE sort_descending(_)
sort_descending(ml) ==
    IF ml = <<>> THEN <<>>
    ELSE sort_insert(sort_descending(SubSeq(ml, 1, Len(ml) - 1)), ml[Len(ml)])

Scores(ml) == [k \in DOMAIN ml |-> ml[k].score]

\* C20: in the loop that calls pick_move(list, i) and then get_move(i) for
\* every index in turn, the moves taken so far are in non-increasing score
\* order and none of the moves still to come scores higher than any of them;
\* taken and remaining moves together are the moves of the list as given;
\* when the loop ends every move of the list has been taken exactly once and
\* the scores were met in the order a full descending sort puts them in.
PickMoveVisitsInScoreOrder ==
    (stack # <<>> /\ Top.fn = "ordering") =>
        LET f == Top
            v == f.visited
            rest == SubSeq(f.move_list, f.i, Len(f.move_list))
        IN  /\ Len(v) = f.i - 1
            /\ \A k \in 1 .. Len(v) - 1 : v[k].score >= v[k + 1].score
            /\ \A k \in DOMAIN v : \A j \in DOMAIN rest :
                  v[k].score >= rest[j].score
            /\ SameMoves(v \o rest, f.given)
            /\ pc = "done" =>
                  /\ SameMoves(v, f.given)
                  /\ Scores(v) = Scores(sort_descending(f.given))

\* the loop has ended on a list of at least three moves, two of them with
\* the same score, that was not in descending order when given
PickMoveWitness ==
    /\ stack # <<>>
    /\ Top.fn = "ordering"
    /\ pc = "done"
    /\ Len(Top.given) >= 3
    /\ Top.visited # Top.given
    /\ \E j, k \in DOMAIN Top.given :
          j # k /\ Top.given[j].score = Top.given[k].score
    /\ Scores(Top.given) # Scores(sort_descending(Top.given))

----------------------------------------------------------------------------
(* The board's primitives on their own (board.rs:95-131): put_piece,       *)
(* remove_piece, set_ep_square and clear_ep_square called one after the    *)
(* other on a board.  shadow keeps, for every call made, its name, its     *)
(* arguments and the board it was made on.                                 *)

MaxCalls == 2

\* 4k3/8/8/8/4P3/8/8/4K3 b - e3 0 1
PosEpSet ==
    Position({<<WHITE, KING, E1>>, <<WHITE, PAWN, 28>>, <<BLACK, KING, E8>>},
             BLACK, 0, 20, 0, 1)

CallPositions ==
    {PosCastle, PosPromoEp, PosEpBlack, PosSmall, PosKings, PosEpSet, PosStart}

\* d4, e3, h8
CallSquares == {27, 20, H8}
\* e3, d6
CallEpSquares == {20, 43}

Call(op, side, piece, square) ==
    [op |-> op, side |-> side, piece |-> piece, square |-> square,
     before |-> board]

InitCalls ==
    /\ board \in CallPositions
    /\ editsLeft = MaxCalls
    /\ plyLimit = 0
    /\ lastOp = "init"
    /\ ret = TRUE
    /\ pre = EmptyBoard
    /\ shadow = <<>>
    /\ arg = NoMove
    /\ SearchIdle

\* one call of a primitive: b is the board it leaves
Called(call, b) ==
    /\ board' = b
    /\ pre' = board
    /\ shadow' = Append(shadow, call)
    /\ editsLeft' = editsLeft - 1
    /\ lastOp' = call.op
    /\ UNCHANGED <<ret, arg, plyLimit, searchVars>>

\* board.put_piece(side, piece, square) on an empty square
CallPutPiece ==
    \E side \in Sides, piece \in PieceTypes, square \in CallSquares :
        /\ editsLeft > 0
        /\ square \notin occupancy(board)
        /\ Called(Call("put_piece", side, piece, square),
                  put_piece(board, side, piece, square))

\* board.remove_piece(side, piece, square) of a piece that is on the square
CallRemovePiece ==
    \E side \in Sides, piece \in PieceTypes, square \in CallSquares :
        /\ editsLeft > 0
        /\ square \in board.bb_side[side][piece]
        /\ Called(Call("remove_piece", side, piece, square),
                  remove_piece(board, side, piece, square))

\* board.set_ep_square(square)
CallSetEpSquare ==
    \E square \in CallEpSquares :
        /\ editsLeft > 0
        /\ Called(Call("set_ep_square", WHITE, PNONE, square),
                  set_ep_square(board, square))

\* board.clear_ep_square()
CallClearEpSquare ==
    /\ editsLeft > 0
    /\ Called(Call("clear_ep_square", WHITE, PNONE, EP_NONE),
              clear_ep_square(board))

\* board.reset()
CallReset ==
    /\ editsLeft > 0
    /\ Called(Call("reset", WHITE, PNONE, EP_NONE), reset(board))

NextCalls ==
    \/ CallPutPiece \/ CallRemovePiece \/ CallSetEpSquare \/ CallClearEpSquare
    \/ CallReset

SpecCalls == InitCalls /\ [][NextCalls]_vars

\* the calls made so far are calls of the primitives
CallsMade == shadow # <<>> /\ lastOp = shadow[Len(shadow)].op

LastCall == shadow[Len(shadow)]
CallBefore == shadow[Len(shadow) - 1]

\* the last two calls were put_piece and remove_piece with the same arguments
PutThenRemoved ==
    /\ Len(shadow) >= 2
    /\ lastOp = "remove_piece"
    /\ LastCall.op = "remove_piece"
    /\ CallBefore.op = "put_piece"
    /\ LastCall.side = CallBefore.side
    /\ LastCall.piece = CallBefore.piece
    /\ LastCall.square = CallBefore.square

\* C21: put_piece(side, piece, sq) on an empty square followed by
\* remove_piece(side, piece, sq) leaves bb_side, bb_pieces, piece_list,
\* material_count and the Zobrist key as they were before the put.
RemoveUndoesPut ==
    PutThenRemoved =>
        LET was == CallBefore.before
        IN  /\ board.bb_side = was.bb_side
            /\ board.bb_pieces = was.bb_pieces
            /\ board.piece_list = was.piece_list
            /\ board.material_count = was.material_count
            /\ board.game_state.zobrist_key = was.game_state.zobrist_key

\* a black queen was put on a square of a board with other pieces and
\* removed again; in between the board was another one
RemoveUndoesPutWitness ==
    /\ PutThenRemoved
    /\ LastCall.side = BLACK
    /\ LastCall.piece = QUEEN
    /\ Cardinality(occupancy(board)) > 2
    /\ pre # board
    /\ pre.material_count[BLACK] = board.material_count[BLACK] + PIECE_VALUES[QUEEN]

\* C22: clear_ep_square on a board whose en-passant square is None changes
\* no field of the board, and set_ep_square followed by clear_ep_square on a
\* board whose en-passant square was None leaves the Zobrist key (and the
\* board) as it was.
ClearEpNoOp ==
    /\ (/\ shadow # <<>>
        /\ lastOp = "clear_ep_square"
        /\ LastCall.op = "clear_ep_square"
        /\ LastCall.before.game_state.en_passant = EP_NONE)
          => board = LastCall.before
    /\ (/\ Len(shadow) >= 2
        /\ lastOp = "clear_ep_square"
        /\ LastCall.op = "clear_ep_square"
        /\ CallBefore.op = "set_ep_square"
        /\ CallBefore.before.game_state.en_passant = EP_NONE)
          => /\ board.game_state.zobrist_key =
                   CallBefore.before.game_state.zobrist_key
             /\ board = CallBefore.before

\* the en-passant square was set on a board that had none and cleared again
ClearEpWitness ==
    /\ Len(shadow) >= 2
    /\ lastOp = "clear_ep_square"
    /\ CallBefore.op = "set_ep_square"
    /\ CallBefore.before.game_state.en_passant = EP_NONE
    /\ pre.game_state.en_passant # EP_NONE
    /\ pre.game_state.zobrist_key # board.game_state.zobrist_key

----------------------------------------------------------------------------
(* Properties of make: the irreversible state and the special moves *)

\* make(arg) has returned true; pre is the board it was called on
Made == lastOp = "make" /\ ret

Mover == pre.game_state.active_color

\* C23: after a make that returned true the halfmove clock is 0 if the move
\* is a pawn move or captures a piece, en passant included, and the clock
\* before the move plus 1 otherwise.
HalfmoveClockRule ==
    Made =>
        board.game_state.halfmove_clock =
            IF arg.piece = PAWN \/ arg.captured # PNONE \/ arg.en_passant
            THEN 0
            ELSE pre.game_state.halfmove_clock + 1

\* a piece other than a pawn has moved without capturing, for the second
\* time in a row
HalfmoveClockWitness ==
    /\ Made
    /\ arg.piece # PAWN
    /\ arg.captured = PNONE
    /\ pre.game_state.halfmove_clock > 6
    /\ board.game_state.halfmove_clock = pre.game_state.halfmove_clock + 1

\* the square a pawn of the side passes over on a double step to the square
PassedOver(side, to) == IF side = WHITE THEN to - 8 ELSE to + 8

\* C24: after a make that returned true the en-passant square is the square
\* the pawn passed over if the move is a pawn double step, and None after
\* every other move, whatever it was before.
EpSquareRule ==
    Made =>
        board.game_state.en_passant =
            IF arg.double_step THEN PassedOver(Mover, arg.to) ELSE EP_NONE

\* a move that is no double step was made on a board with an en-passant
\* square
EpSquareWitness ==
    /\ Made
    /\ ~arg.double_step
    /\ pre.game_state.en_passant # EP_NONE
    /\ board.game_state.en_passant = EP_NONE

\* the castling rights of a side
RightsOf(side) ==
    IF side = WHITE THEN {CASTLE_WK, CASTLE_WQ} ELSE {CASTLE_BK, CASTLE_BQ}

\* the rook that belongs to a castling move of the king to the square:
\* where it stands and where it goes
CastlingRook(to) ==
    CASE to = G1 -> <<H1, F1>>
      [] to = C1 -> <<A1, D1>>
      [] to = G8 -> <<H8, F8>>
      [] to = C8 -> <<A8, D8>>
      [] OTHER -> <<to, to>>

\* what stands on the square: <<side, piece>>, or <<>> on an empty square
StandsOn(b, sq) ==
    IF \E s \in Sides, p \in PieceTypes : sq \in b.bb_side[s][p]
    THEN CHOOSE sp \in Sides \X PieceTypes : sq \in b.bb_side[sp[1]][sp[2]]
    ELSE <<>>

\* C25: a castling move puts the king on its destination and the matching
\* rook on the square next to it (H1 to F1, A1 to D1, H8 to F8, A8 to D8),
\* moves nothing else, clears both castling rights of the side that
\* castled and leaves the opponent's rights as they were.
CastlingRule ==
    (Made /\ arg.castling) =>
        LET rook == CastlingRook(arg.to)
        IN  /\ arg.to \in {G1, C1, G8, C8}
            /\ StandsOn(board, arg.to) = <<Mover, KING>>
            /\ StandsOn(board, rook[2]) = <<Mover, ROOK>>
            /\ StandsOn(pre, rook[1]) = <<Mover, ROOK>>
            /\ StandsOn(board, arg.from) = <<>>
            /\ StandsOn(board, rook[1]) = <<>>
            /\ \A sq \in Squares \ {arg.from, arg.to, rook[1], rook[2]} :
                  /\ StandsOn(board, sq) = StandsOn(pre, sq)
                  /\ board.piece_list[sq] = pre.piece_list[sq]
            /\ \A bit \in RightsOf(Mover) :
                  ~HasBit(board.game_state.castling, bit)
            /\ \A bit \in RightsOf(1 - Mover) :
                  HasBit(board.game_state.castling, bit)
                      = HasBit(pre.game_state.castling, bit)

\* Black has castled while White still had a castling right, and has it
\* still
CastlingWitness ==
    /\ Made
    /\ arg.castling
    /\ Mover = BLACK
    /\ HasBit(pre.game_state.castling, CASTLE_BK)
    /\ HasBit(pre.game_state.castling, CASTLE_BQ)
    /\ HasBit(board.game_state.castling, CASTLE_WK)

\* the castling right that belongs to a corner square of a side
CornerRight(side, sq) ==
    IF side = WHITE
    THEN (IF sq = H1 THEN {CASTLE_WK} ELSE IF sq = A1 THEN {CASTLE_WQ} ELSE {})
    ELSE (IF sq = H8 THEN {CASTLE_BK} ELSE IF sq = A8 THEN {CASTLE_BQ} ELSE {})

\* the rights a move takes by capturing a rook on a corner of its side
CapturedRights(m, mover) ==
    IF m.captured = ROOK THEN CornerRight(1 - mover, m.to) ELSE {}

\* the rights a move takes by moving a king or rook off a starting square
MovedRights(m) ==
    IF ~m.castling /\ m.piece \in {KING, ROOK}
    THEN IF m.from = E1 THEN {CASTLE_WK, CASTLE_WQ}
         ELSE IF m.from = E8 THEN {CASTLE_BK, CASTLE_BQ}
         ELSE CornerRight(WHITE, m.from) \cup CornerRight(BLACK, m.from)
    ELSE {}

CastledRights(m, mover) == IF m.castling THEN RightsOf(mover) ELSE {}

\* C26: a move that captures a rook on a corner square takes the castling
\* right of that corner from the side that lost the rook; a capture of a
\* rook elsewhere or of another piece changes no castling right (the rights
\* that go are those the moving king or rook gives up itself).
RookCaptureRule ==
    (Made /\ arg.captured # PNONE) =>
        LET taken == CapturedRights(arg, Mover)
        IN  /\ \A bit \in taken : ~HasBit(board.game_state.castling, bit)
            /\ board.game_state.castling =
                   ClearBits(pre.game_state.castling,
                             taken \cup MovedRights(arg))
            /\ taken = {} =>
                  \A bit \in {1, 2, 4, 8} \ MovedRights(arg) :
                     HasBit(board.game_state.castling, bit)
                         = HasBit(pre.game_state.castling, bit)

\* a piece that is neither king nor rook has captured a rook on a corner and
\* the right of that corner, set before, is gone
RookCaptureWitness ==
    /\ Made
    /\ arg.captured = ROOK
    /\ arg.piece \notin {KING, ROOK}
    /\ CapturedRights(arg, Mover) # {}
    /\ \A bit \in CapturedRights(arg, Mover) :
          HasBit(pre.game_state.castling, bit)
    /\ pre.game_state.castling # board.game_state.castling

\* C27: a king or rook that makes a non-castling move from E1, H1, A1, E8,
\* H8 or A8 takes the castling rights of that square; a move of another
\* piece, or of a king or rook from another square, changes the castling
\* rights only by capturing a rook on a corner.
KingRookMoveRule ==
    (Made /\ ~arg.castling) =>
        /\ \A bit \in MovedRights(arg) :
              ~HasBit(board.game_state.castling, bit)
        /\ MovedRights(arg) = {} =>
              board.game_state.castling =
                  ClearBits(pre.game_state.castling,
                            CapturedRights(arg, Mover))
        /\ \A bit \in {1, 2, 4, 8} \
                        (MovedRights(arg) \cup CapturedRights(arg, Mover)) :
              HasBit(board.game_state.castling, bit)
                  = HasBit(pre.game_state.castling, bit)

\* a rook has moved from a square that is no starting square and its side
\* has kept the castling right it had
KingRookMoveWitness ==
    /\ Made
    /\ ~arg.castling
    /\ arg.piece = ROOK
    /\ arg.captured = PNONE
    /\ MovedRights(arg) = {}
    /\ \E bit \in RightsOf(Mover) : HasBit(board.game_state.castling, bit)
    /\ board.game_state.castling = pre.game_state.castling

\* the squares on which pieces of the side stand
PiecesOf(b, side) == UNION {b.bb_side[side][p] : p \in PieceTypes}

\* C28: a move with the en-passant flag removes one piece of the opponent,
\* the pawn on the square behind the destination as the mover sees it;
\* nothing is removed from the destination, which holds the capturing pawn
\* and nothing else afterwards.
EnPassantRule ==
    (Made /\ arg.en_passant) =>
        LET behind == PassedOver(Mover, arg.to)
            them == 1 - Mover
        IN  /\ StandsOn(pre, behind) = <<them, PAWN>>
            /\ StandsOn(pre, arg.to) = <<>>
            /\ PiecesOf(board, them) = PiecesOf(pre, them) \ {behind}
            /\ board.bb_pieces[them] = pre.bb_pieces[them] \ {behind}
            /\ \A p \in PieceTypes :
                  board.bb_side[them][p] = pre.bb_side[them][p] \ {behind}
            /\ board.piece_list[behind] = PNONE
            /\ board.material_count[them] =
                   pre.material_count[them] - PIECE_VALUES[PAWN]
            /\ board.piece_list[arg.to] = PAWN
            /\ \A s \in Sides, p \in PieceTypes :
                  arg.to \in board.bb_side[s][p] <=> (s = Mover /\ p = PAWN)
            /\ arg.to \notin board.bb_pieces[them]

\* Black has captured a pawn en passant
EnPassantWitness ==
    /\ Made
    /\ arg.en_passant
    /\ Mover = BLACK
    /\ arg.to - arg.from \in {-7, -9}
    /\ pre.piece_list[arg.to + 8] = PAWN
    /\ board.piece_list[arg.to + 8] = PNONE

----------------------------------------------------------------------------
(* Properties of the search modes *)

\* alpha_beta is at its entry and this entry is a checkpoint
AtCheckpoint ==
    pc = "enter" /\ Top.fn = "alpha_beta" /\ Search_is_checkpoint(search_info)

\* C30: in search mode Depth with requested depth D, and no Stop or Quit in
\* the control channel, the termination flag changes only at a checkpoint,
\* from Nothing to Stop; a checkpoint reached with the iteration depth above
\* D sets it to Stop, and while the iteration depth is at most D it stays
\* Nothing, so the iteration at depth D is not cut short.
DepthModeStopsPastDepth ==
    [][(search_params.search_mode = "Depth" /\ control_rx = <<>>) =>
          /\ search_info'.terminate # search_info.terminate =>
                /\ AtCheckpoint
                /\ search_info.terminate = "Nothing"
                /\ search_info'.terminate = "Stop"
                /\ search_info.depth > search_params.depth
          /\ (AtCheckpoint /\ search_info.depth > search_params.depth) =>
                search_info'.terminate = "Stop"
          /\ search_info'.depth <= search_params.depth =>
                search_info'.terminate = "Nothing"]_vars

\* the iteration at the requested depth was completed, and a checkpoint of
\* the next iteration has set the flag
DepthModeWitness ==
    /\ search_params.search_mode = "Depth"
    /\ completed.depth = search_params.depth
    /\ completed.best_move # NoMove
    /\ search_info.depth = search_params.depth + 1
    /\ search_info.terminate = "Stop"

----------------------------------------------------------------------------
(* UCI go movetime.  The engine thread turns the report GoMoveTime(msecs)  *)
(* into search parameters and sends them to the search with Start          *)
(* (engine/comm_reports.rs:120-124); the search, once started, compares    *)
(* the time elapsed with move_time at its checkpoints                      *)
(* (search/utils.rs:85-90).  Here a message of the control channel is a    *)
(* record that carries the parameters of a Start.  lastOp names the step   *)
(* taken last; after "panic" the program has ended.                        *)

\* the overhead subtracted from a time budget, in milliseconds
OVERHEAD == 25
\* stands for u128::MAX, 2^128 - 1, which the checker's integers do not hold
U128_MAX == 2147483647

MaxGoLines == 2
MaxElapsed == 3

\* the times a GUI sends with go movetime
MoveTimes == {0, 10, OVERHEAD - 1, OVERHEAD, OVERHEAD + 1, OVERHEAD + 2}

\* a - b on u128: with overflow checks the subtraction panics below zero,
\* without them it wraps
u128_sub(a, b) ==
    IF a >= b
    THEN {[panic |-> FALSE, value |-> a - b]}
    ELSE {[panic |-> TRUE, value |-> 0],
          [panic |-> FALSE, value |-> U128_MAX - (b - a) + 1]}

SearchControl(cmd, sp) == [cmd |-> cmd, sp |-> sp]

GoReport(type, msecs) == [type |-> type, msecs |-> msecs]

GoReports ==
    {GoReport("GoMoveTime", msecs) : msecs \in MoveTimes}
    \cup {GoReport("Stop", 0)}

\* Engine::cr_uci, UciReport::GoMoveTime: the parameters sent with Start,
\* for the outcome d of the subtraction
go_movetime(d) ==
    SearchControl("Start", [NoSearchParams EXCEPT !.move_time = d.value,
                                                  !.search_mode = "MoveTime"])

InitGo ==
    /\ EngineStarts(MaxGoLines)
    /\ engine.comm = "uci"

Running == lastOp # "panic"

goFixed == <<board, ret, pre, shadow, arg, editsLeft, plyLimit, stack,
             retval, retkind, last, completed, engine, comm_tx>>

\* Uci::report_thread: a go movetime or a stop has been read
GoReportThread ==
    /\ Running
    /\ trace.lines > 0
    /\ info_rx = <<>>
    /\ \E r \in GoReports : info_rx' = Append(info_rx, Information("Uci", r))
    /\ trace' = [trace EXCEPT !.lines = @ - 1]
    /\ lastOp' = "report"
    /\ UNCHANGED <<workerVars, goFixed>>

\* Engine::main_loop and cr_uci for the reports GoMoveTime and Stop
GoMainLoop ==
    /\ Running
    /\ info_rx # <<>>
    /\ LET r == Head(info_rx).report
       IN  IF r.type = "GoMoveTime"
           THEN \E d \in u128_sub(r.msecs, OVERHEAD) :
                   IF d.panic
                   THEN lastOp' = "panic" /\ control_rx' = control_rx
                   ELSE /\ lastOp' = "go"
                        /\ control_rx' = Append(control_rx, go_movetime(d))
           ELSE /\ lastOp' = "stop"
                /\ control_rx' = Append(control_rx,
                                        SearchControl("Stop", NoSearchParams))
    /\ trace' = [trace EXCEPT !.report = Head(info_rx)]
    /\ info_rx' = Tail(info_rx)
    /\ UNCHANGED <<search_params, search_info, pc, goFixed>>

\* the search thread, waiting: Start begins a search with the parameters
\* sent, Stop is dropped
GoWorkerReceive ==
    /\ Running
    /\ pc = "idle"
    /\ control_rx # <<>>
    /\ IF Head(control_rx).cmd = "Start"
       THEN /\ pc' = "running"
            /\ search_params' = Head(control_rx).sp
            /\ search_info' = IdleSearchInfo
       ELSE UNCHANGED <<pc, search_params, search_info>>
    /\ control_rx' = Tail(control_rx)
    /\ lastOp' = "receive"
    /\ UNCHANGED <<info_rx, trace, goFixed>>

\* the timer of the running search: one more millisecond has elapsed
GoTimer ==
    /\ Running
    /\ pc = "running"
    /\ search_info.terminate = "Nothing"
    /\ search_info.elapsed < MaxElapsed
    /\ search_info' = [search_info EXCEPT !.elapsed = @ + 1]
    /\ lastOp' = "timer"
    /\ UNCHANGED <<search_params, control_rx, pc, info_rx, trace, goFixed>>

\* a checkpoint of the running search
GoCheckpoint ==
    /\ Running
    /\ pc = "running"
    /\ search_info.terminate = "Nothing"
    /\ search_info' = check_termination(search_info, search_params,
                          [i \in DOMAIN control_rx |-> control_rx[i].cmd])
    /\ control_rx' = IF control_rx = <<>> THEN control_rx ELSE Tail(control_rx)
    /\ lastOp' = "checkpoint"
    /\ UNCHANGED <<search_params, pc, info_rx, trace, goFixed>>

\* the search has been terminated and its thread waits again
GoFinish ==
    /\ Running
    /\ pc = "running"
    /\ search_info.terminate # "Nothing"
    /\ pc' = "idle"
    /\ lastOp' = "finish"
    /\ UNCHANGED <<search_params, search_info, control_rx, info_rx, trace,
                   goFixed>>

NextGo ==
    \/ GoReportThread \/ GoMainLoop \/ GoWorkerReceive
    \/ GoTimer \/ GoCheckpoint \/ GoFinish

SpecGo == InitGo /\ [][NextGo]_vars

\* the engine thread handles a go movetime in this step
HandlesGoMoveTime ==
    /\ info_rx # <<>>
    /\ Head(info_rx).report.type = "GoMoveTime"
    /\ info_rx' = Tail(info_rx)

\* C29: for go movetime N the search is started in mode MoveTime with a
\* budget that is N - OVERHEAD, computed without underflow and never larger
\* than N, for every N >= 0; and a checkpoint at which the time elapsed has
\* reached move_time sets the termination flag to Stop, while the flag is
\* not set for the time before that.
MoveTimeBudget ==
    [][/\ HandlesGoMoveTime =>
             LET N == Head(info_rx).report.msecs
                 sent == control_rx'[Len(control_rx')]
             IN  /\ lastOp' # "panic"
                 /\ Len(control_rx') = Len(control_rx) + 1
                 /\ sent.cmd = "Start"
                 /\ sent.sp.search_mode = "MoveTime"
                 /\ sent.sp.move_time <= N
                 /\ N >= OVERHEAD => sent.sp.move_time = N - OVERHEAD
       /\ (/\ pc = "running"
           /\ search_params.search_mode = "MoveTime"
           /\ search_info.terminate = "Nothing"
           /\ lastOp' = "checkpoint") =>
             IF search_info.elapsed >= search_params.move_time
             THEN search_info'.terminate = "Stop"
             ELSE control_rx = <<>> => search_info'.terminate = "Nothing"]_vars

----------------------------------------------------------------------------
(* Castling rights along a line of play *)

\* C39: castling rights only shrink: after every make, accepted or rejected,
\* the castling mask is a subset of the mask before the call, and along the
\* line played so far the mask of the board is a subset of every mask the
\* history holds.
CastlingOnlyShrinks ==
    /\ lastOp = "make" =>
          MaskSubset(board.game_state.castling, pre.game_state.castling)
    /\ \A i \in 1 .. Len(board.history) :
          /\ MaskSubset(board.game_state.castling, board.history[i].castling)
          /\ \A j \in 1 .. i :
                MaskSubset(board.history[i].castling, board.history[j].castling)

\* a second move of a line has taken a right away that the first had left
CastlingShrinksWitness ==
    /\ Made
    /\ Len(board.history) = 2
    /\ board.game_state.castling # pre.game_state.castling
    /\ board.game_state.castling # 0

----------------------------------------------------------------------------
(* The targets of kings and knights *)

AttackTable(piece, from) ==
    IF piece = KING THEN king_attacks[from] ELSE knight_attacks[from]

\* the squares the move list names for the piece on from, and those it
\* names with a captured piece
ListedTargets(ml, piece, from) ==
    {ml[i].to : i \in {k \in 1 .. Len(ml) :
                        /\ ml[k].piece = piece /\ ml[k].from = from
                        /\ ~ml[k].castling}}
ListedCaptures(ml, piece, from) ==
    {ml[i].to : i \in {k \in 1 .. Len(ml) :
                        /\ ml[k].piece = piece /\ ml[k].from = from
                        /\ ~ml[k].castling /\ ml[k].captured # PNONE}}

NonSliderSplit(b, ml, piece, from) ==
    LET side == us(b)
        own == b.bb_pieces[side]
        enemy == b.bb_pieces[1 - side]
        att == AttackTable(piece, from)
        quiet == non_slider_quiet(b, piece, side, from)
        capture == non_slider_capture(b, piece, side, from)
    IN  /\ quiet \cap capture = {}
        /\ (quiet \cup capture) \cap own = {}
        /\ quiet \cup capture = att \ own
        /\ capture = att \cap enemy
        /\ quiet = att \ (own \cup enemy)
        /\ ListedTargets(ml, piece, from) = quiet \cup capture
        /\ ListedCaptures(ml, piece, from) = capture

\* C31: for every king or knight of the side to move, the quiet targets and
\* the capture targets are disjoint, hold no square of the mover's own
\* pieces, and together are the attack table's squares without the mover's
\* own: captures are the attacked enemy squares, quiets the attacked empty
\* squares; the move list names exactly these.
NonSliderTargets ==
    \A ml \in {gen_all_moves(board)} :
        \A piece \in {KING, KNIGHT} :
            \A from \in board.bb_side[us(board)][piece] :
                NonSliderSplit(board, ml, piece, from)

\* a king or knight that attacks an own piece, an enemy piece and an empty
\* square has just captured
NonSliderWitness ==
    /\ Made
    /\ arg.piece \in {KING, KNIGHT}
    /\ arg.captured # PNONE
    /\ AttackTable(arg.piece, arg.from) \cap pre.bb_pieces[us(pre)] # {}
    /\ AttackTable(arg.piece, arg.from) \ occupancy(pre) # {}

----------------------------------------------------------------------------
(* The score of a node without a legal move *)

\* C34: alpha_beta returns through its no-legal-moves branch, with
\* -CHECKMATE + ply or STALEMATE, only at nodes where the side to move has
\* no legal move, whatever the termination flag is during the call.
NoMovesScoreOnlyWithoutMoves ==
    (AlphaBetaReturned /\ retkind = "no_moves") =>
        legal_moves(board) = <<>>

----------------------------------------------------------------------------
(* What a call of alpha_beta leaves behind *)

\* C33: on every return path of alpha_beta (the hand-off to quiescence,
\* ply >= MAX_DEPTH, a beta cutoff, no legal move, the break on a set
\* termination flag, the end of the move list) the board, with its history
\* and its Zobrist key, and search_info.ply are what they were when the
\* call was entered.
AlphaBetaRestores ==
    AlphaBetaReturned =>
        /\ board = Top.entry.board
        /\ search_info.ply = Top.entry.ply

\* a call one ply below the root has made and taken back two legal moves
AlphaBetaRestoresWitness ==
    /\ AlphaBetaReturned
    /\ Top.entry.ply = 1
    /\ Top.legal_moves_found >= 2
    /\ Len(board.history) = 1

----------------------------------------------------------------------------
(* Quit at a checkpoint *)

\* the checkpoint of this step takes Quit from the control channel
ReceivesQuit ==
    /\ AtCheckpoint
    /\ control_rx # <<>>
    /\ Head(control_rx) = "Quit"
    /\ control_rx' = Tail(control_rx)

\* C35: when check_termination receives Quit, the termination flag is Quit
\* when it returns, in every search mode and whatever limit is reached at
\* the same checkpoint; and a flag that is Quit stays Quit.
QuitIsKept ==
    [][/\ ReceivesQuit => search_info'.terminate = "Quit"
       /\ search_info.terminate = "Quit" => search_info'.terminate = "Quit"
      ]_vars

----------------------------------------------------------------------------
(* The board after reset *)

\* C40: after reset() the board is the freshly created empty board: all
\* bitboards empty, every piece_list entry None, both material counts 0,
\* the history empty and the game state the initial one; the material and
\* the occupancy invariants hold.
ResetGivesEmptyBoard ==
    (CallsMade /\ lastOp = "reset") =>
        /\ board = EmptyBoard
        /\ MaterialCountConsistent
        /\ OccupancyInvariant

----------------------------------------------------------------------------
(* The engine's list of legal moves *)

\* the report handled last has set up a position
PositionReportHandled ==
    /\ trace.report.src \in {"Uci", "XBoard"}
    /\ trace.report.report.type \in {"Position", "UciNewGame", "SetBoard"}

\* create_legal_move_list makes every move of the list and takes back the
\* accepted ones: the board is what it was
ListKeepsBoard(b) ==
    \A ml \in {gen_all_moves(b)} : \A i \in 1 .. Len(ml) :
        \A made \in {make_move(b, ml[i])} :
            IF made.is_legal THEN unmake(made.board) = b ELSE made.board = b

\* C37: after the engine has handled a report that sets up a position (UCI
\* position with its moves, UCI ucinewgame, XBoard setboard),
\* Engine.legal_moves holds exactly the legal moves of the board's position;
\* and create_legal_move_list leaves the board as it was.
LegalMovesCurrent ==
    PositionReportHandled =>
        /\ engine.legal_moves = legal_moves(board)
        /\ ListKeepsBoard(board)

----------------------------------------------------------------------------
(* The answer to "." in XBoard mode.  trace.exited tells that exit was    *)
(* the last of the reports Analyze and Exit the engine thread has handled. *)

\* the engine thread handles a "." report in this step
HandlesDot ==
    /\ ~engine.quit
    /\ info_rx # <<>>
    /\ Head(info_rx).src = "XBoard"
    /\ Head(info_rx).report.type = "Dot"
    /\ info_rx' = Tail(info_rx)

AnswersStat01 ==
    /\ Len(comm_tx') = Len(comm_tx) + 1
    /\ comm_tx'[Len(comm_tx')].type = "AnalyzeStat01"

\* C38: a "." report is answered with a stat01 line only when the stored
\* statistics are complete (time, nodes and depth not 0 and a current move
\* set); and after an exit report has been handled a "." is not answered
\* with a stat01 line until a new analyze has been handled, whatever search
\* reports were still in flight.
DotAnswer ==
    [][HandlesDot =>
          /\ AnswersStat01 =>
                /\ engine.stat01.time # 0
                /\ engine.stat01.nodes # 0
                /\ engine.stat01.depth # 0
                /\ engine.stat01.curr_move # NoMove
          /\ ~AnswersStat01 => comm_tx' = comm_tx
          /\ trace.exited => ~AnswersStat01
      ]_vars

----------------------------------------------------------------------------
(* The threads of the engine and their end.  stack holds the position of    *)
(* each of the report thread, the control thread and the engine thread:    *)
(* the report thread reads lines until it has forwarded Quit               *)
(* (comm/xboard.rs:133-171), the control thread takes the messages of      *)
(* comm_tx in order until it has taken Quit (xboard.rs:174-213), and the   *)
(* engine thread runs its main loop until its quit flag is set and then    *)
(* joins the two in wait_for_shutdown (xboard.rs:114-122).  The search     *)
(* holds the board's mutex while it runs; in Infinite mode it ends when    *)
(* it is told to.                                                          *)

MaxThreadLines == 3

ThreadLines ==
    {Txt.analyze, Txt.exit, Txt.quit, Txt.eval, Txt.board,
     Txt.setboard \o <<" ">> \o FenKings}

ThreadReports ==
    {UciReport(type, <<>>, <<>>) :
        type \in {"GoInfinite", "Stop", "Quit", "UciNewGame"}}
    \cup {UciReport("Position", FenKings, <<>>)}

InitThreads ==
    /\ board = PosKings
    /\ lastOp = "init"
    /\ ret = TRUE
    /\ pre = EmptyBoard
    /\ shadow = <<>>
    /\ arg = NoMove
    /\ editsLeft = 0
    /\ plyLimit = 0
    /\ search_params = NoSearchParams
    /\ completed = NoneCompleted
    /\ control_rx = <<>>
    /\ search_info = IdleSearchInfo
    /\ stack = [report_thread |-> [pc |-> "read"],
                control_thread |-> [pc |-> "recv", next |-> 1],
                main_loop |-> [pc |-> "recv"]]
    /\ pc = "idle"
    /\ retval = 0
    /\ retkind = "none"
    /\ last = NoLast
    /\ \E protocol \in {"uci", "xboard"} :
          engine = [NewEngine(protocol) EXCEPT !.legal_moves = legal_moves(board)]
    /\ comm_tx = <<>>
    /\ info_rx = <<>>
    /\ trace = EngineTrace(MaxThreadLines)

threadFixed == <<lastOp, ret, pre, shadow, arg, editsLeft, plyLimit, retval,
                 retkind, last, completed>>

\* the report thread has read a line and sends its report; after Quit its
\* flag is set
ReadLine(line, information) ==
    /\ info_rx' = Append(info_rx, information)
    /\ trace' = [trace EXCEPT !.line = line, !.lines = @ - 1]
    /\ stack' = [stack EXCEPT !.report_thread.pc =
                    IF information.report.type = "Quit" THEN "quit"
                    ELSE "read"]
    /\ UNCHANGED <<board, engine, comm_tx, workerVars, threadFixed>>

\* XBoard::report_thread, one turn of its loop
ThreadXBoardReport ==
    /\ engine.comm = "xboard"
    /\ stack.report_thread.pc = "read"
    /\ trace.lines > 0
    /\ \E line \in ThreadLines :
          ReadLine(line, Information("XBoard", create_report(line)))

\* Uci::report_thread, one turn of its loop
ThreadUciReport ==
    /\ engine.comm = "uci"
    /\ stack.report_thread.pc = "read"
    /\ trace.lines > 0
    /\ \E r \in ThreadReports : ReadLine(<<>>, Information("Uci", r))

\* the report thread leaves its loop
ThreadReportExit ==
    /\ stack.report_thread.pc = "quit"
    /\ stack' = [stack EXCEPT !.report_thread.pc = "done"]
    /\ UNCHANGED <<board, engine, comm_tx, info_rx, trace, workerVars,
                   threadFixed>>

\* the messages whose printing locks the board
PrintLocksBoard(msg) == msg.type \in {"PrintBoard", "PrintHistory"}

\* XBoard::control_thread, one turn of its loop: the next message is
\* received and acted on; Quit ends the thread
ThreadControl ==
    /\ stack.control_thread.pc = "recv"
    /\ stack.control_thread.next <= Len(comm_tx)
    /\ PrintLocksBoard(comm_tx[stack.control_thread.next]) => pc # "running"
    /\ stack' = [stack EXCEPT
                    !.control_thread.next = @ + 1,
                    !.control_thread.pc =
                        IF comm_tx[stack.control_thread.next].type = "Quit"
                        THEN "done" ELSE "recv"]
    /\ UNCHANGED <<board, engine, comm_tx, info_rx, trace, workerVars,
                   threadFixed>>

\* wait_for_shutdown, called when the main loop has ended: the report
\* thread is joined
ThreadJoinReport ==
    /\ engine.quit
    /\ stack.main_loop.pc = "recv"
    /\ stack.report_thread.pc = "done"
    /\ stack' = [stack EXCEPT !.main_loop.pc = "join_control"]
    /\ UNCHANGED <<board, engine, comm_tx, info_rx, trace, workerVars,
                   threadFixed>>

\* wait_for_shutdown: the control thread is joined and the call returns
ThreadJoinControl ==
    /\ stack.main_loop.pc = "join_control"
    /\ stack.control_thread.pc = "done"
    /\ stack' = [stack EXCEPT !.main_loop.pc = "returned"]
    /\ UNCHANGED <<board, engine, comm_tx, info_rx, trace, workerVars,
                   threadFixed>>

\* the search that has been told to end does end
WorkerEnds == search_info.terminate # "Nothing" /\ WorkerFinish

NextThreads ==
    \/ ThreadXBoardReport \/ ThreadUciReport \/ ThreadReportExit
    \/ MainLoop \/ ThreadControl \/ ThreadJoinReport \/ ThreadJoinControl
    \/ WorkerReceive \/ WorkerCheckpoint \/ WorkerSummary \/ WorkerFinish

\* a turn of the main loop: the step that takes the first report off the
\* channel, possible when MainLoop is
EngineTurn ==
    /\ ~engine.quit
    /\ info_rx # <<>>
    /\ LocksBoard(Head(info_rx)) => pc # "running"
    /\ info_rx' = Tail(info_rx)

\* what a step of a thread other than a reader of lines changes
threadsAt ==
    <<pc, stack, Len(info_rx), Len(control_rx), Len(comm_tx),
      search_info.terminate>>

\* every thread that can take a step takes one; no line has to be read,
\* and a search not told to end need not end
ThreadsFair ==
    /\ WF_threadsAt(ThreadReportExit)
    /\ WF_info_rx(EngineTurn)
    /\ WF_threadsAt(ThreadControl)
    /\ WF_threadsAt(ThreadJoinReport)
    /\ WF_threadsAt(ThreadJoinControl)
    /\ WF_threadsAt(WorkerReceive)
    /\ WF_threadsAt(WorkerCheckpoint)
    /\ WF_threadsAt(WorkerEnds)

SpecThreads == InitThreads /\ [][NextThreads]_vars /\ ThreadsFair

\* the line quit has been read
QuitRead == stack.report_thread.pc \in {"quit", "done"}

QuitReports ==
    {i \in 1 .. Len(info_rx) :
        info_rx[i].src # "Search" /\ info_rx[i].report.type = "Quit"}

\* C32: in XBoard mode, once the line quit has been read the report thread
\* forwards exactly one Quit report and ends; the engine sends Quit to the
\* search and to the control thread and sets its quit flag; the control
\* thread ends on receiving Quit; and wait_for_shutdown returns after
\* joining both threads.  Neither thread ends before quit is read.
QuitShutsDown ==
    /\ [](engine.comm = "xboard" =>
            /\ (stack.report_thread.pc = "done" \/ stack.control_thread.pc = "done")
                  => QuitRead
            /\ Cardinality(QuitReports) <= 1)
    /\ [][(engine.comm = "xboard" /\ ~engine.quit /\ engine'.quit) =>
            /\ control_rx' = Append(control_rx, "Quit")
            /\ Len(comm_tx') = Len(comm_tx) + 1
            /\ comm_tx'[Len(comm_tx')].type = "Quit"
            /\ SubSeq(comm_tx', 1, Len(comm_tx)) = comm_tx]_threadsAt
    /\ (engine.comm = "xboard" /\ QuitRead) ~>
            /\ stack.report_thread.pc = "done"
            /\ stack.control_thread.pc = "done"
            /\ engine.quit
            /\ stack.main_loop.pc = "returned"

\* a stop request waits to be handled by the engine thread
StopRequested ==
    \E i \in 1 .. Len(info_rx) :
        /\ info_rx[i].src # "Search"
        /\ info_rx[i].report.type \in {"Stop", "Exit"}

\* the engine thread waits for the board's mutex, which the search holds
EngineBlocked ==
    /\ ~engine.quit
    /\ info_rx # <<>>
    /\ LocksBoard(Head(info_rx))
    /\ pc = "running"

\* C36: while a search runs in Infinite mode and holds the board's mutex,
\* a stop request read after any reports, those that lock the board in the
\* engine thread included, is followed by the end of the search and the
\* release of the mutex; the engine thread does not wait for the mutex
\* for ever.
StopEndsSearch ==
    /\ (pc = "running" /\ StopRequested) ~> (pc # "running")
    /\ (EngineBlocked /\ StopRequested) ~> ~EngineBlocked

====
